---- MODULE Spec2Model ----
(***************************************************************************)
(* ThorMail ecosystem: the JavaScript client's resilient request engine    *)
(* (ThorMailClient._request and its helpers) and the delivery adapters'     *)
(* sendMail operations (Resend, SES, SMTP, Mandrill, Generic REST,          *)
(* OneSignal, Telegram), modelled as state machines.                        *)
(*                                                                         *)
(* A JavaScript value that may be null/undefined is a sequence of length    *)
(* at most one: <<>> is null/undefined, <<v>> is the value v.               *)
(***************************************************************************)
EXTENDS Integers, Sequences, FiniteSets, TLC

Null == <<>>
Some(v) == <<v>>
IsNull(o) == o = <<>>
Val(o) == o[1]

Min(a, b) == IF a <= b THEN a ELSE b
Max(a, b) == IF a >= b THEN a ELSE b

RECURSIVE Pow2(_)
Pow2(n) == IF n = 0 THEN 1 ELSE 2 * Pow2(n - 1)

(***************************************************************************)
(* Bounds of the model.                                                     *)
(***************************************************************************)
\* retry.maxRetries is drawn from 0..MaxRetriesBound
MaxRetriesBound == 2
\* Math.random() is drawn from the grid k / (2 * JitterSteps), k in 0..2*JitterSteps-1
JitterSteps == 2

\* longest data.attachments list explored
MaxAttachments == 2

(***************************************************************************)
(* Program constants of the client.                                         *)
(***************************************************************************)
DefaultBaseDelay == 1000
DefaultMaxDelay == 30000

(***************************************************************************)
(* ThorMailClient: state.                                                   *)
(***************************************************************************)
VARIABLES
    retryConfig,    \* this.retryConfig (frozen at construction)
    pc,             \* position of the one logical call: idle, fetch, backoff, returned, thrown
    attempt,        \* the loop variable of _request
    attemptsMade,   \* number of fetch() calls the logical call has issued
    lastError,      \* the local lastError of _request
    delay,          \* the delay the call is suspended for while pc = "backoff"
    lastEvent,      \* how the attempt just made ended ("none" while one is in flight)
    outcome,        \* what the call returned or threw
    lastRateLimit   \* this.#lastRateLimit

clientVars == <<retryConfig, pc, attempt, attemptsMade, lastError, delay, lastEvent,
                outcome, lastRateLimit>>

(***************************************************************************)
(* Channel adapters: state of one sendMail call.                            *)
(***************************************************************************)
VARIABLES
    aPc,            \* position of the sendMail call: idle, awaiting (request out), done
    aCall,          \* the adapter called and the arguments that decide its control flow
    aAnswer,        \* what the provider or the transport answered
    aOutcome,       \* what sendMail did: the DeliveryResult returned, or the throw
    aRequests,      \* the network requests the call has issued so far, in order
    aIndex          \* the attachment being downloaded (0: none)

adapterVars == <<aPc, aCall, aAnswer, aOutcome, aRequests, aIndex>>

(***************************************************************************)
(* Idempotency-key derivation: one caller key and the tokens derived from it *)
(***************************************************************************)
VARIABLES
    dKey,           \* the caller's idempotencyKey, a string as a sequence of characters
    dFormat,        \* the adapter deriving: "onesignal" (UUID form) or "resend" (hex digest)
    dTokens         \* the tokens derived from dKey so far, in order

deriveVars == <<dKey, dFormat, dTokens>>

(***************************************************************************)
(* Channel adapters: state of one webhook call.                             *)
(***************************************************************************)
VARIABLES
    wPc,            \* position of the webhook call: idle, done
    wAdapter,       \* the adapter whose webhook is called
    wConfig,        \* this.config: whether the verification settings are present
    wRequest,       \* the arguments: the payload and the headers
    wOutcome        \* what webhook did: the value returned, or the throw

webhookVars == <<wPc, wAdapter, wConfig, wRequest, wOutcome>>

(***************************************************************************)
(* Channel adapters: state of one healthCheck call.                         *)
(***************************************************************************)
VARIABLES
    hPc,            \* position of the healthCheck call: idle, probing, done
    hAdapter,       \* the adapter whose healthCheck is called
    hAnswer,        \* what the provider or the transport answered to the probe
    hOutcome        \* what healthCheck did: the status returned, or the throw

healthVars == <<hPc, hAdapter, hAnswer, hOutcome>>

(***************************************************************************)
(* Channel adapters: one adapter instance and the invocations running on it *)
(***************************************************************************)
VARIABLES
    iAdapter,       \* the class of the instance
    iFields,        \* the instance's fields: config, baseUrl, successCodes, client
    iConstructed,   \* the fields as the constructor left them
    iCalls          \* the invocations: the operation, its position, its local headers

instanceVars == <<iAdapter, iFields, iConstructed, iCalls>>

(***************************************************************************)
(* ThorMailClient: one client and the logical calls running on it.          *)
(***************************************************************************)
VARIABLES
    kConfig,        \* this.retryConfig
    kCalls,         \* per logical call: its position and the locals of its _request
    kRateLimit,     \* this.#lastRateLimit, what getRateLimitInfo() returns
    kLast           \* how the attempt that ended last ended, and what its response carried

concurrentVars == <<kConfig, kCalls, kRateLimit, kLast>>

(***************************************************************************)
(* Generic REST: the payload of one sendMail call with a payloadTemplate.   *)
(***************************************************************************)
VARIABLES
    tPc,            \* position: idle, done
    tInput,         \* config.payloadTemplate, config.from_email and the arguments
    tPayload        \* the payload handed to _request

templateVars == <<tPc, tInput, tPayload>>

vars == <<clientVars, adapterVars, deriveVars, webhookVars, healthVars, instanceVars,
          concurrentVars, templateVars>>

\* what the actions of one component leave alone
exceptClient == <<adapterVars, deriveVars, webhookVars, healthVars, instanceVars, concurrentVars, templateVars>>
exceptAdapter == <<clientVars, deriveVars, webhookVars, healthVars, instanceVars, concurrentVars, templateVars>>
exceptDerive == <<clientVars, adapterVars, webhookVars, healthVars, instanceVars, concurrentVars, templateVars>>
exceptWebhook == <<clientVars, adapterVars, deriveVars, healthVars, instanceVars, concurrentVars, templateVars>>
exceptHealth == <<clientVars, adapterVars, deriveVars, webhookVars, instanceVars, concurrentVars, templateVars>>
exceptInstance == <<clientVars, adapterVars, deriveVars, webhookVars, healthVars, concurrentVars, templateVars>>
exceptConcurrent == <<clientVars, adapterVars, deriveVars, webhookVars, healthVars, instanceVars,
                      templateVars>>
exceptTemplate == <<clientVars, adapterVars, deriveVars, webhookVars, healthVars, instanceVars,
                    concurrentVars>>

\* retry.retryOn: sets of HTTP status codes
RetryOnChoices == {{429, 500, 502, 503, 504}, {503}}
MaxDelayChoices == {3000, DefaultMaxDelay}

RetryConfigs ==
    [maxRetries : 0..MaxRetriesBound,
     baseDelay : {DefaultBaseDelay},
     maxDelay : MaxDelayChoices,
     retryOn : RetryOnChoices,
     retryOnTimeout : BOOLEAN,
     retryOnNetwork : BOOLEAN]

\* Values of the Retry-After header after parseInt(.., 10): absent, "0", "2", "45"
RetryAfterHeaders == {Null, Some(0), Some(2), Some(45)}
\* Values of data.retryAfter in a JSON error body
BodyRetryAfters == {Null, Some(5)}
\* Values of data.code in a JSON error body ("none": no code)
BodyCodes == {"none", "TIMEOUT", "NETWORK_ERROR"}
\* The headers X-RateLimit-Limit, X-RateLimit-Remaining, X-RateLimit-Reset of a
\* response: each absent or a text
NoRateLimitHeaders == [limit |-> Null, remaining |-> Null, reset |-> Null]
FullRateLimitHeaders(remaining) ==
    [limit |-> Some("100"), remaining |-> Some(remaining), reset |-> Some("1700")]
\* all three present or all three absent
RateLimitHeaders == {NoRateLimitHeaders, FullRateLimitHeaders("42")}
\* and also: remaining "0", and a response that lacks X-RateLimit-Reset
RateLimitHeaderSets ==
    RateLimitHeaders
    \cup {FullRateLimitHeaders("0"),
          [FullRateLimitHeaders("42") EXCEPT !.reset = Null]}

\* parseInt(text, 10) on the header texts of the model
parseInt(text) ==
    CASE text = "100" -> 100
      [] text = "42" -> 42
      [] text = "0" -> 0
      [] text = "1700" -> 1700

OkResponses ==
    [status : {200, 201}, code : {"none"}, hdr : {Null}, bodyRA : {Null},
     rl : RateLimitHeaders, data : {"d1", "d2"}]
\* error responses: every body code without a retry hint, and every retry hint
\* without a body code
ErrorResponses ==
    [status : {400, 429, 503}, code : BodyCodes, hdr : {Null},
     bodyRA : {Null}, rl : RateLimitHeaders, data : {"err"}]
    \cup
    [status : {400, 429, 503}, code : {"none"}, hdr : RetryAfterHeaders,
     bodyRA : BodyRetryAfters, rl : RateLimitHeaders, data : {"err"}]
Responses == OkResponses \cup ErrorResponses

\* Math.random() * 2 - 1, in units of 1 / JitterSteps
JitterDraws == (0 - JitterSteps)..(JitterSteps - 1)

NoEvent == [kind |-> "none", attempt |-> 0, status |-> 0, code |-> "none",
            hdr |-> Null, bodyRA |-> Null, data |-> "none"]

\* new ThorMailError(message, statusCode, code, retryAfter, details); annotated:
\* whether the message carries the "(after N retries)" suffix
ThorMailError(statusCode, code, retryAfter) ==
    [statusCode |-> statusCode, code |-> code, retryAfter |-> retryAfter,
     annotated |-> FALSE]

isTimeout(error) == error.code = "TIMEOUT"
isNetworkError(error) == error.code = "NETWORK_ERROR"

\* a response.ok that accepts 200 alone
ResponseOk_Only200(status) == status = 200

\* response.ok
ResponseOk(status) == status >= 200 /\ status <= 299

\* retryAfterSeconds || data.retryAfter || null
Truthy(o) == ~IsNull(o) /\ Val(o) # 0
RetryAfterOf(resp) ==
    IF Truthy(resp.hdr) THEN resp.hdr
    ELSE IF Truthy(resp.bodyRA) THEN resp.bodyRA
    ELSE Null

\* a _calculateBackoff that returns the server's hint without the maxDelay cap
_calculateBackoff_HintUncapped(cfg, att, serverRetryAfter, j) ==
    IF Truthy(serverRetryAfter) /\ Val(serverRetryAfter) > 0
    THEN Val(serverRetryAfter) * 1000
    ELSE LET exponentialDelay == cfg.baseDelay * Pow2(att)
             jitter == (exponentialDelay * 25 * j) \div (100 * JitterSteps)
             d == exponentialDelay + jitter
         IN  Min(Max(d, 0), cfg.maxDelay)

_calculateBackoff(cfg, att, serverRetryAfter, j) ==
    IF Truthy(serverRetryAfter) /\ Val(serverRetryAfter) > 0
    THEN Min(Val(serverRetryAfter) * 1000, cfg.maxDelay)
    ELSE LET exponentialDelay == cfg.baseDelay * Pow2(att)
             jitter == (exponentialDelay * 25 * j) \div (100 * JitterSteps)
             d == exponentialDelay + jitter
         IN  Min(Max(d, 0), cfg.maxDelay)

\* a _shouldRetry that retries timeouts and network errors whatever the flags say
_shouldRetry_IgnoringFlags(cfg, error, att) ==
    IF att >= cfg.maxRetries THEN FALSE
    ELSE IF isTimeout(error) THEN TRUE
    ELSE IF isNetworkError(error) THEN TRUE
    ELSE error.statusCode \in cfg.retryOn

_shouldRetry(cfg, error, att) ==
    IF att >= cfg.maxRetries THEN FALSE
    ELSE IF isTimeout(error) /\ cfg.retryOnTimeout THEN TRUE
    ELSE IF isNetworkError(error) /\ cfg.retryOnNetwork THEN TRUE
    ELSE error.statusCode \in cfg.retryOn

\* a helper that takes the headers it finds and reads a missing one as 0
_parseRateLimitHeaders_Partial(resp) ==
    LET number(header) == IF IsNull(header) THEN 0 ELSE parseInt(Val(header))
    IN  IF resp.rl = NoRateLimitHeaders THEN Null
        ELSE Some([limit |-> number(resp.rl.limit),
                   remaining |-> number(resp.rl.remaining),
                   reset |-> number(resp.rl.reset)])

\* a header text is truthy unless it is absent or empty
_parseRateLimitHeaders(resp) ==
    IF /\ ~IsNull(resp.rl.limit) /\ Val(resp.rl.limit) # ""
       /\ ~IsNull(resp.rl.remaining) /\ Val(resp.rl.remaining) # ""
       /\ ~IsNull(resp.rl.reset) /\ Val(resp.rl.reset) # ""
    THEN Some([limit |-> parseInt(Val(resp.rl.limit)),
               remaining |-> parseInt(Val(resp.rl.remaining)),
               reset |-> parseInt(Val(resp.rl.reset))])
    ELSE Null

ClientInit ==
    /\ retryConfig \in RetryConfigs
    /\ pc = "idle"
    /\ attempt = 0
    /\ attemptsMade = 0
    /\ lastError = Null
    /\ delay = 0
    /\ lastEvent = NoEvent
    /\ outcome = [kind |-> "none"]
    /\ lastRateLimit = Null

\* send(payload) / sendBatch(payload): validation, then _request up to the first fetch
Call(valid) ==
    /\ pc \in {"idle", "returned", "thrown"}
    /\ lastEvent' = NoEvent
    /\ lastError' = Null
    /\ delay' = 0
    /\ attempt' = 0
    /\ IF valid
       THEN /\ pc' = "fetch"
            /\ attemptsMade' = 1
            /\ outcome' = [kind |-> "none"]
       ELSE /\ pc' = "thrown"
            /\ attemptsMade' = 0
            /\ outcome' = [kind |-> "threw",
                           error |-> ThorMailError(400, "VALIDATION_ERROR", Null)]
    /\ UNCHANGED <<retryConfig, lastRateLimit, exceptClient>>

\* what follows a retryable failure: remember it and suspend; otherwise throw it
RetryOrThrow(error, serverRetryAfter) ==
    IF _shouldRetry(retryConfig, error, attempt)
    THEN /\ lastError' = Some(error)
         /\ \E j \in JitterDraws :
                delay' = _calculateBackoff(retryConfig, attempt, serverRetryAfter, j)
         /\ pc' = "backoff"
         /\ outcome' = outcome
    ELSE /\ lastError' = lastError
         /\ delay' = delay
         /\ pc' = "thrown"
         /\ outcome' = [kind |-> "threw", error |-> error]

\* fetch resolves with a response: the rest of the loop body
FetchResolves(resp) ==
    /\ pc = "fetch"
    /\ lastEvent' = [kind |-> "response", attempt |-> attempt, status |-> resp.status,
                     code |-> resp.code, hdr |-> resp.hdr, bodyRA |-> resp.bodyRA,
                     data |-> resp.data]
    /\ lastRateLimit' = IF IsNull(_parseRateLimitHeaders(resp)) THEN lastRateLimit
                        ELSE _parseRateLimitHeaders(resp)
    /\ IF ResponseOk(resp.status)
       THEN /\ pc' = "returned"
            /\ outcome' = [kind |-> "returned", data |-> resp.data]
            /\ UNCHANGED <<lastError, delay>>
       ELSE LET error == ThorMailError(resp.status, resp.code, RetryAfterOf(resp))
            IN  RetryOrThrow(error, error.retryAfter)
    /\ UNCHANGED <<retryConfig, attempt, attemptsMade, exceptClient>>

\* fetch rejects: AbortError (the timeout fired), TypeError (connection failure),
\* or anything else
FetchRejects(kind) ==
    /\ pc = "fetch"
    /\ lastEvent' = [NoEvent EXCEPT !.kind = kind, !.attempt = attempt]
    /\ CASE kind = "abort" ->
              RetryOrThrow(ThorMailError(0, "TIMEOUT", Null), Null)
         [] kind = "typeerror" ->
              RetryOrThrow(ThorMailError(0, "NETWORK_ERROR", Null), Null)
         [] OTHER ->
              /\ pc' = "thrown"
              /\ outcome' = [kind |-> "threw",
                             error |-> ThorMailError(0, "UNKNOWN_ERROR", Null)]
              /\ UNCHANGED <<lastError, delay>>
    /\ UNCHANGED <<retryConfig, attempt, attemptsMade, lastRateLimit, exceptClient>>

\* the backoff timer fires: continue, attempt++, loop test, next fetch
DelayElapses ==
    /\ pc = "backoff"
    /\ attempt' = attempt + 1
    /\ delay' = 0
    /\ lastEvent' = NoEvent
    /\ IF attempt + 1 <= retryConfig.maxRetries
       THEN /\ pc' = "fetch"
            /\ attemptsMade' = attemptsMade + 1
            /\ outcome' = outcome
       ELSE /\ pc' = "thrown"
            /\ attemptsMade' = attemptsMade
            /\ outcome' =
                 [kind |-> "threw",
                  error |-> IF IsNull(lastError)
                            THEN ThorMailError(0, "MAX_RETRIES_EXCEEDED", Null)
                            ELSE [Val(lastError) EXCEPT !.annotated = TRUE]]
    /\ UNCHANGED <<retryConfig, lastError, lastRateLimit, exceptClient>>

ClientNext ==
    \/ \E valid \in BOOLEAN : Call(valid)
    \/ \E resp \in Responses : FetchResolves(resp)
    \/ \E kind \in {"abort", "typeerror", "other"} : FetchRejects(kind)
    \/ DelayElapses

\* ---------------------------------------------------------------------------
\* Channel adapters: sendMail and the error classifiers
\* ---------------------------------------------------------------------------

Adapters == {"resend", "ses", "smtp", "mandrill", "generic-rest", "onesignal", "telegram"}

\* The source of an attachment given by reference (att.path, att.href or
\* att.url), split where the scheme test looks: the prefix and the rest.
Urls ==
    {[prefix |-> "https://", rest |-> "example.com/a.pdf"],
     [prefix |-> "HTTPS://", rest |-> "EXAMPLE.COM/A.PDF"],
     [prefix |-> "ftp://", rest |-> "evil/x"],
     [prefix |-> "file://", rest |-> "/etc/passwd"],
     [prefix |-> "", rest |-> "/etc/passwd"]}

\* String.prototype.toLowerCase on the strings that are lowered
toLowerCase(str) ==
    CASE str = "HTTPS://" -> "https://"
      [] str = "X-Auth" -> "x-auth"
      [] OTHER -> str

\* lowerUrl.startsWith('http://') || lowerUrl.startsWith('https://')
IsRemoteUrl(url) == toLowerCase(url.prefix) \in {"http://", "https://"}

\* one attachment: inline content (Null) or a reference
AttachmentRefs == {Null} \cup {Some(u) : u \in Urls}

AttachmentLists == UNION {[1..n -> AttachmentRefs] : n \in 0..MaxAttachments}

\* the security check of one attachment throws
Rejected(att) == ~IsNull(att) /\ ~IsRemoteUrl(Val(att))

\* The arguments of sendMail that decide its control flow: whether the optional
\* data argument is given, data.attachments, and (Telegram) whether `to` or
\* config.defaultChatId gives a chat id.
Calls ==
    {c \in [adapter : Adapters, dataOmitted : BOOLEAN,
            attachments : AttachmentLists, hasChatId : BOOLEAN] :
        /\ c.dataOmitted => c.attachments = <<>>
        /\ c.attachments # <<>> => c.adapter \in {"resend", "ses", "smtp", "mandrill"}
        /\ ~c.hasChatId => c.adapter = "telegram"}

HasRejected(call) == \E i \in DOMAIN call.attachments : Rejected(call.attachments[i])

\* SES and Mandrill walk data.attachments in order from position i: an inline
\* attachment is kept, a reference is validated and then downloaded at once.
\* The walk stops at the first throw or download, or ends at the send request.
RECURSIVE AttachmentLoop(_, _)
AttachmentLoop(atts, i) ==
    IF i > Len(atts) THEN [kind |-> "send", index |-> 0]
    ELSE IF IsNull(atts[i]) THEN AttachmentLoop(atts, i + 1)
    ELSE IF ~IsRemoteUrl(Val(atts[i])) THEN [kind |-> "throw", index |-> i]
    ELSE [kind |-> "download", index |-> i]

NoCall == [adapter |-> "none", dataOmitted |-> FALSE, attachments |-> <<>>, hasChatId |-> TRUE]

\* What error.message contains, as far as the adapters look at it
MessageTexts == {"plain", "timeout", "Network"}

HttpStatuses == {200, 400, 401, 402, 403, 404, 405, 418, 429, 500, 502, 503, 504}
TemporaryStatuses == {429, 500, 502, 503, 504}

\* One answer of the provider or of the transport.  kind: "reject" (fetch
\* rejects), "bodyfail" (headers arrived, reading the body fails), "response"
\* (HTTP response), "sent"/"error" (nodemailer, AWS SDK).  body: "empty", "text"
\* (not JSON), "null" (the JSON value null), "json" (a JSON object or array).
NoAnswer ==
    [kind |-> "none", status |-> 0, body |-> "empty", name |-> "none", hasId |-> FALSE,
     shape |-> "object", mstatus |-> "none", retryAfter |-> Null, text |-> "plain",
     ok |-> FALSE, errorCode |-> Null, hasDescription |-> FALSE,
     code |-> "none", responseCode |-> 0, httpStatusCode |-> Null]

TransportAnswers ==
    {[NoAnswer EXCEPT !.kind = "reject", !.text = t] : t \in MessageTexts}
    \cup {[NoAnswer EXCEPT !.kind = "bodyfail", !.status = s] : s \in {200, 503}}

PlainBodies(statuses) ==
    {[NoAnswer EXCEPT !.kind = "response", !.status = s, !.body = b] :
        s \in statuses, b \in {"empty", "text", "null"}}

ResendNames ==
    {"none", "validation_error", "invalid_api_key", "rate_limit_exceeded",
     "daily_quota_exceeded", "monthly_quota_exceeded", "application_error", "concurrent_idempotent_requests",
     "invalid_idempotent_request", "teapot_error"}

ResendAnswers ==
    TransportAnswers \cup PlainBodies(HttpStatuses)
    \cup {[NoAnswer EXCEPT !.kind = "response", !.status = s, !.body = "json", !.name = n,
                           !.hasId = i, !.retryAfter = r] :
            s \in HttpStatuses, n \in ResendNames, i \in BOOLEAN, r \in {Null, Some(2)}}

MandrillNames ==
    {"none", "ValidationError", "Invalid_Key", "Unknown_Template", "Unknown_Sender",
     "PaymentRequired", "GeneralError", "ServiceUnavailable", "Strange_Error"}

MandrillAnswers ==
    TransportAnswers \cup PlainBodies(HttpStatuses)
    \cup {[NoAnswer EXCEPT !.kind = "response", !.status = s, !.body = "json", !.name = n,
                           !.mstatus = m] :
            s \in HttpStatuses, n \in MandrillNames, m \in {"none", "error"}}
    \cup {[NoAnswer EXCEPT !.kind = "response", !.status = 429, !.body = "json", !.name = n,
                           !.retryAfter = Some(2)] : n \in MandrillNames}
    \cup {[NoAnswer EXCEPT !.kind = "response", !.status = s, !.body = "json", !.shape = sh,
                           !.mstatus = m, !.hasId = i] :
            s \in {200, 500}, sh \in {"object", "array", "emptyArray"},
            m \in {"sent", "rejected", "invalid"}, i \in BOOLEAN}

GenericRestAnswers ==
    TransportAnswers \cup PlainBodies(HttpStatuses)
    \cup {[NoAnswer EXCEPT !.kind = "response", !.status = s, !.body = "json", !.hasId = i] :
            s \in HttpStatuses, i \in BOOLEAN}

OneSignalAnswers ==
    TransportAnswers \cup PlainBodies(HttpStatuses)
    \cup {[NoAnswer EXCEPT !.kind = "response", !.status = s, !.body = "json", !.hasId = i,
                           !.text = t, !.retryAfter = r] :
            s \in HttpStatuses, i \in BOOLEAN, t \in MessageTexts, r \in {Null, Some(0), Some(2)}}

\* Telegram mirrors the HTTP status in the body's error_code (or leaves it out)
TelegramAnswers ==
    TransportAnswers \cup PlainBodies({200, 400, 429, 502})
    \cup {[NoAnswer EXCEPT !.kind = "response", !.status = 200, !.body = "json", !.ok = TRUE,
                           !.hasId = i] : i \in BOOLEAN}
    \cup {[NoAnswer EXCEPT !.kind = "response", !.status = s, !.body = "json", !.ok = FALSE,
                           !.errorCode = e, !.hasDescription = d] :
            s \in {400, 403, 429, 500}, e \in {Null, Some(400), Some(403), Some(429), Some(500)},
            d \in BOOLEAN}

SmtpAnswers ==
    {[NoAnswer EXCEPT !.kind = "sent", !.hasId = TRUE]}
    \cup {[NoAnswer EXCEPT !.kind = "error", !.code = c, !.responseCode = rc] :
            c \in {"none", "ETIMEDOUT", "ECONNECTION", "EAUTH", "EENVELOPE", "EPROTOCOL"},
            rc \in {0, 421, 450, 535, 550}}

SesAnswers ==
    {[NoAnswer EXCEPT !.kind = "sent", !.hasId = i] : i \in BOOLEAN}
    \cup {[NoAnswer EXCEPT !.kind = "error", !.name = n, !.httpStatusCode = h] :
            n \in {"ThrottlingException", "TooManyRequestsException", "MessageRejected",
                   "AccessDeniedException", "UnknownError"},
            h \in {Null, Some(400), Some(403), Some(429), Some(500), Some(503)}}

AnswersOf(adapter) ==
    CASE adapter = "resend" -> ResendAnswers
      [] adapter = "mandrill" -> MandrillAnswers
      [] adapter = "generic-rest" -> GenericRestAnswers
      [] adapter = "onesignal" -> OneSignalAnswers
      [] adapter = "telegram" -> TelegramAnswers
      [] adapter = "smtp" -> SmtpAnswers
      [] OTHER -> SesAnswers

\* A function either returns a value or throws
Return(result) == [kind |-> "returned", result |-> result]
Throw(error) == [kind |-> "threw", error |-> error]

\* A JavaScript value that is true, false or undefined
Tri(b) == IF b THEN "true" ELSE "false"

\* What sendMail resolves to.  id and error say whether the field holds a
\* value (FALSE: the key is missing or its value is undefined).
DeliveryResult(success, id, error, isTemporary) ==
    [success |-> success, id |-> id, error |-> error, isTemporary |-> isTemporary,
     pauseDuration |-> Null, isLocalError |-> "undefined"]

Failed(isTemporary) == DeliveryResult(FALSE, FALSE, TRUE, Tri(isTemporary))

\* An exception object, with the fields the catch blocks read
JsError(text) ==
    [code |-> "none", responseCode |-> 0, name |-> "Error", httpStatusCode |-> Null,
     isRateLimit |-> FALSE, retryAfter |-> Null, text |-> text]

\* reading a property of undefined or null
TypeError == [JsError("plain") EXCEPT !.name = "TypeError"]

\* the error thrown for an attachment that names a local path
SecurityError == [JsError("plain") EXCEPT !.code = "E_SECURITY", !.responseCode = 553]

\* ---- Resend ----

ResendPermanentErrors ==
    {"validation_error", "missing_api_key", "invalid_api_key", "restricted_api_key",
     "invalid_from_address", "invalid_attachment", "invalid_parameter", "invalid_region",
     "missing_required_field", "not_found", "method_not_allowed", "invalid_access",
     "security_error", "concurrent_idempotent_requests"}

ResendTemporaryErrors ==
    {"rate_limit_exceeded", "daily_quota_exceeded", "monthly_quota_exceeded",
     "application_error", "internal_server_error"}

\* errorBody is null: errorBody.name throws.  Otherwise the classification.
_handleResendError(answer) ==
    IF answer.body = "null" THEN Throw(TypeError)
    ELSE
    LET errorName == IF answer.body = "json" /\ answer.name # "none"
                     THEN answer.name ELSE "unknown_error"
        isTemporary ==
            IF errorName \in ResendPermanentErrors THEN FALSE
            ELSE errorName \in ResendTemporaryErrors \/ answer.status \in TemporaryStatuses
        throttled == answer.status = 429 \/ errorName \in {"rate_limit_exceeded",
                          "daily_quota_exceeded", "monthly_quota_exceeded"}
        pauseDuration ==
            IF ~throttled THEN Null
            ELSE IF errorName = "daily_quota_exceeded" THEN Some(3600)
            ELSE IF errorName = "monthly_quota_exceeded" THEN Some(86400)
            ELSE IF ~IsNull(answer.retryAfter) THEN answer.retryAfter
            ELSE Some(60)
    IN  IF errorName = "concurrent_idempotent_requests"
        THEN Return(DeliveryResult(TRUE, TRUE, FALSE, "false"))
        ELSE Return([Failed(isTemporary) EXCEPT !.pauseDuration = pauseDuration])

\* a helper that takes HTTP 429 for a success
ResendRequest_ThrottleIsOk(answer) ==
    IF answer.kind = "reject" THEN Return(Failed(TRUE))
    ELSE IF answer.kind = "bodyfail" THEN Throw(JsError(answer.text))
    ELSE IF ~ResponseOk(answer.status) /\ answer.status # 429 THEN _handleResendError(answer)
    ELSE Return([success |-> TRUE, data |-> answer])

\* ResendAdapter._request: a result object, or an exception
ResendRequest(answer) ==
    IF answer.kind = "reject" THEN Return(Failed(TRUE))
    ELSE IF answer.kind = "bodyfail" THEN Throw(JsError(answer.text))
    ELSE IF ~ResponseOk(answer.status) THEN _handleResendError(answer)
    ELSE Return([success |-> TRUE, data |-> answer])

\* the try block of ResendAdapter.sendMail
ResendTry(call, answer) ==
    IF call.dataOmitted THEN Throw(TypeError)
    ELSE IF HasRejected(call) THEN Throw(SecurityError)
    ELSE LET result == ResendRequest(answer)
         IN  IF result.kind = "threw" THEN result
             ELSE IF ~result.result.success THEN result
             ELSE IF "data" \notin DOMAIN result.result THEN Throw(TypeError)
             ELSE IF answer.body = "null" THEN Throw(TypeError)
             ELSE Return(DeliveryResult(TRUE, answer.body = "json" /\ answer.hasId,
                                        FALSE, "false"))

ResendSendMail(call, answer) ==
    LET r == ResendTry(call, answer)
    IN  IF r.kind = "threw" THEN Return(Failed(TRUE)) ELSE r

\* ---- Mandrill ----

MandrillPermanentErrors ==
    {"ValidationError", "Invalid_Key", "Invalid_Reject", "Unknown_Message",
     "Unknown_Template", "Unknown_Subaccount", "Unknown_Sender", "Unknown_Url",
     "Unknown_TrackingDomain", "Unknown_Webhook", "Unknown_InboundDomain",
     "Unknown_InboundRoute", "Unknown_Export", "Invalid_CustomDNS",
     "Invalid_CustomDNSPending", "Invalid_Sender", "Invalid_Template", "Invalid_Tag_Name"}

MandrillTemporaryErrors == {"GeneralError", "ServiceUnavailable", "PaymentRequired"}

_handleMandrillError(answer) ==
    IF answer.body = "null" THEN Throw(TypeError)
    ELSE
    LET errorName == IF answer.body = "json" /\ answer.shape = "object" /\ answer.name # "none"
                     THEN answer.name ELSE "Unknown"
        isTemporary ==
            IF errorName \in MandrillPermanentErrors THEN FALSE
            ELSE errorName \in MandrillTemporaryErrors \/ answer.status \in TemporaryStatuses
    IN  Return([Failed(isTemporary) EXCEPT
                   !.pauseDuration = IF answer.status = 429 THEN Some(60) ELSE Null])

\* responseData.status === 'error' (a property read: throws on null)
MandrillBodySaysError(answer) ==
    answer.body = "json" /\ answer.shape = "object" /\ answer.mstatus = "error"

MandrillRequest(answer) ==
    IF answer.kind = "reject" THEN Return(Failed(TRUE))
    ELSE IF answer.kind = "bodyfail" THEN Throw(JsError(answer.text))
    ELSE IF ~ResponseOk(answer.status) THEN _handleMandrillError(answer)
    ELSE IF answer.body = "null" THEN Throw(TypeError)
    ELSE IF MandrillBodySaysError(answer) THEN _handleMandrillError(answer)
    ELSE Return([success |-> TRUE, data |-> answer])

\* the try block of MandrillEmailAdapter.sendMail (data defaults to {})
MandrillTry(call, answer) ==
    IF HasRejected(call) THEN Throw(SecurityError)
    ELSE LET result == MandrillRequest(answer)
         IN  IF result.kind = "threw" THEN result
             ELSE IF ~result.result.success THEN result
             ELSE IF answer.body = "json" /\ answer.shape = "emptyArray" THEN Throw(TypeError)
             ELSE LET isResult == answer.body = "json"
                      id == isResult /\ answer.hasId
                  IN  IF isResult /\ answer.mstatus \in {"rejected", "invalid"}
                      THEN Return(DeliveryResult(FALSE, id, TRUE, "false"))
                      ELSE Return(DeliveryResult(TRUE, id, FALSE, "false"))

MandrillCatch(error) ==
    IF error.code = "E_SECURITY"
    THEN [Failed(FALSE) EXCEPT !.isLocalError = "true"]
    ELSE Failed(TRUE)

MandrillSendMail(call, answer) ==
    LET r == MandrillTry(call, answer)
    IN  IF r.kind = "threw" THEN Return(MandrillCatch(r.error)) ELSE r

\* ---- Generic REST ----

\* config.successStatus, default '200,201,202'
successCodes == {200, 201, 202}

GenericRestRequest(answer) ==
    IF answer.kind \in {"reject", "bodyfail"} THEN Return(Failed(TRUE))
    ELSE IF answer.status \notin successCodes
    THEN Return(Failed(answer.status = 429 \/ (answer.status >= 500 /\ answer.status < 600)))
    ELSE Return([success |-> TRUE, data |-> answer])

\* the id falls back to 'rest-' + Date.now(), so it always holds a value
GenericRestTry(call, answer) ==
    LET result == GenericRestRequest(answer)
    IN  IF ~result.result.success THEN result
        ELSE Return(DeliveryResult(TRUE, TRUE, FALSE, "false"))

GenericRestSendMail(call, answer) ==
    LET r == GenericRestTry(call, answer)
    IN  IF r.kind = "threw" THEN Return(Failed(TRUE)) ELSE r

\* ---- OneSignal ----

\* OneSignalAdapter._request: fetch is not wrapped; after response.json() has
\* failed the body is used up and response.text() throws a TypeError
OneSignalRequest(answer) ==
    IF answer.kind \in {"reject", "bodyfail"} THEN Throw(JsError(answer.text))
    ELSE IF answer.body \in {"empty", "text"} THEN Throw(TypeError)
    ELSE IF ~ResponseOk(answer.status)
    THEN IF answer.status = 429
         THEN Throw([JsError("plain") EXCEPT !.isRateLimit = TRUE,
                        !.retryAfter = IF IsNull(answer.retryAfter) THEN Some(60)
                                       ELSE answer.retryAfter])
         ELSE IF answer.body = "null" THEN Throw(TypeError)
         ELSE Throw(JsError(answer.text))
    ELSE Return(answer)

OneSignalTry(call, answer) ==
    LET result == OneSignalRequest(answer)
    IN  IF result.kind = "threw" THEN result
        ELSE IF answer.body = "null" THEN Throw(TypeError)
        ELSE Return(DeliveryResult(TRUE, answer.hasId, FALSE, "false"))

OneSignalCatch(error) ==
    IF error.isRateLimit
    THEN [Failed(TRUE) EXCEPT !.pauseDuration =
             IF Truthy(error.retryAfter) THEN error.retryAfter ELSE Some(60)]
    ELSE Failed(error.text \in {"timeout", "Network"})

OneSignalSendMail_NoCatch(call, answer) == OneSignalTry(call, answer)

OneSignalSendMail(call, answer) ==
    LET r == OneSignalTry(call, answer)
    IN  IF r.kind = "threw" THEN Return(OneSignalCatch(r.error)) ELSE r

\* ---- Telegram ----

TelegramTry(call, answer) ==
    IF ~call.hasChatId THEN Return(Failed(FALSE))
    ELSE IF answer.kind \in {"reject", "bodyfail"} THEN Throw(JsError(answer.text))
    ELSE IF answer.body \in {"empty", "text"} THEN Throw(JsError("plain"))
    ELSE IF answer.body = "null" THEN Throw(TypeError)
    ELSE IF answer.ok
    THEN IF answer.hasId THEN Return(DeliveryResult(TRUE, TRUE, FALSE, "undefined"))
         ELSE Throw(TypeError)
    ELSE LET isTemporary == ~IsNull(answer.errorCode)
                            /\ Val(answer.errorCode) \in TemporaryStatuses
         IN  Return(DeliveryResult(FALSE, FALSE, answer.hasDescription, Tri(isTemporary)))

TelegramSendMail(call, answer) ==
    LET r == TelegramTry(call, answer)
    IN  IF r.kind = "threw" THEN Return(Failed(TRUE)) ELSE r

\* ---- SMTP ----

SmtpNetworkErrorCodes ==
    {"ETIMEDOUT", "ECONNRESET", "EPIPE", "ESOCKET", "ECONNECTION", "EDNS", "ENOTFOUND"}

SmtpTry(call, answer) ==
    IF call.dataOmitted THEN Throw(TypeError)
    ELSE IF HasRejected(call) THEN Throw(SecurityError)
    ELSE IF answer.kind = "error"
    THEN Throw([JsError("plain") EXCEPT !.code = answer.code,
                                        !.responseCode = answer.responseCode])
    ELSE Return(DeliveryResult(TRUE, answer.hasId, FALSE, "false"))

\* error.responseCode undefined compares false everywhere: modelled as 0
SmtpCatch(error) ==
    LET isNetworkCode == error.code \in SmtpNetworkErrorCodes
        isLocalError == error.code = "E_SECURITY"
        isSMTP4xx == error.responseCode >= 400 /\ error.responseCode < 500
        isSMTP5xx == error.responseCode >= 500
        isAuthError == error.code = "EAUTH" \/ error.responseCode = 535
        isTemporary == IF isAuthError \/ isSMTP5xx THEN FALSE
                       ELSE isNetworkCode \/ isSMTP4xx
    IN  [Failed(isTemporary) EXCEPT !.isLocalError = Tri(isLocalError)]

SmtpSendMail(call, answer) ==
    LET r == SmtpTry(call, answer)
    IN  IF r.kind = "threw" THEN Return(SmtpCatch(r.error)) ELSE r

\* ---- SES ----

SesTemporaryNames ==
    {"ThrottlingException", "LimitExceededException", "ServiceUnavailable",
     "InternalFailure", "RequestTimeout", "NetworkingError", "TimeoutError",
     "TooManyRequestsException"}

SesTry(call, answer) ==
    IF HasRejected(call) THEN Throw(SecurityError)
    ELSE IF answer.kind = "error"
    THEN Throw([JsError("plain") EXCEPT !.name = answer.name,
                                        !.httpStatusCode = answer.httpStatusCode])
    ELSE Return(DeliveryResult(TRUE, answer.hasId, FALSE, "false"))

\* names.includes(error.name) || (error.$metadata && $metadata.httpStatusCode >= 500)
SesCatch(error) ==
    IF error.code = "E_SECURITY"
    THEN [Failed(FALSE) EXCEPT !.isLocalError = "true"]
    ELSE [Failed(FALSE) EXCEPT !.isTemporary =
             IF error.name \in SesTemporaryNames THEN "true"
             ELSE IF IsNull(error.httpStatusCode) THEN "undefined"
             ELSE Tri(Val(error.httpStatusCode) >= 500)]

SesSendMail(call, answer) ==
    LET r == SesTry(call, answer)
    IN  IF r.kind = "threw" THEN Return(SesCatch(r.error)) ELSE r

\* ---- the adapter contract ----

\* sendMail of the adapter the call names
sendMail(call, answer) ==
    CASE call.adapter = "resend" -> ResendSendMail(call, answer)
      [] call.adapter = "mandrill" -> MandrillSendMail(call, answer)
      [] call.adapter = "generic-rest" -> GenericRestSendMail(call, answer)
      [] call.adapter = "onesignal" -> OneSignalSendMail(call, answer)
      [] call.adapter = "telegram" -> TelegramSendMail(call, answer)
      [] call.adapter = "smtp" -> SmtpSendMail(call, answer)
      [] OTHER -> SesSendMail(call, answer)

\* sendMail ends before any request leaves: the result is already decided
EndsLocally(call) ==
    \/ call.dataOmitted /\ call.adapter \in {"resend", "smtp"}
    \/ call.adapter \in {"resend", "smtp"} /\ HasRejected(call)
    \/ /\ call.adapter \in {"ses", "mandrill"}
       /\ AttachmentLoop(call.attachments, 1).kind = "throw"
    \/ ~call.hasChatId

AdapterInit ==
    /\ aPc = "idle"
    /\ aCall = NoCall
    /\ aAnswer = NoAnswer
    /\ aOutcome = [kind |-> "none"]
    /\ aRequests = <<>>
    /\ aIndex = 0

\* the orchestrator calls an adapter's sendMail; it runs up to its first await
SendMail(call) ==
    /\ aPc = "idle"
    /\ aCall' = call
    /\ aAnswer' = NoAnswer
    /\ IF EndsLocally(call)
       THEN /\ aPc' = "done"
            /\ aOutcome' = sendMail(call, NoAnswer)
            /\ aRequests' = <<>>
            /\ aIndex' = 0
       ELSE LET stop == AttachmentLoop(call.attachments, 1)
            IN  /\ aOutcome' = [kind |-> "none"]
                /\ IF call.adapter \in {"ses", "mandrill"} /\ stop.kind = "download"
                   THEN /\ aPc' = "downloading"
                        /\ aRequests' = <<"download">>
                        /\ aIndex' = stop.index
                   ELSE /\ aPc' = "awaiting"
                        /\ aRequests' = <<"send">>
                        /\ aIndex' = 0
    /\ UNCHANGED exceptAdapter

\* _downloadAttachment of SES or Mandrill ends: it throws (fetch rejected or
\* the response is not ok), or the loop over data.attachments goes on
DownloadEnds(ok) ==
    /\ aPc = "downloading"
    /\ aAnswer' = aAnswer
    /\ aCall' = aCall
    /\ IF ~ok
       THEN /\ aPc' = "done"
            /\ aOutcome' = Return(IF aCall.adapter = "ses" THEN SesCatch(JsError("plain"))
                                  ELSE MandrillCatch(JsError("plain")))
            /\ UNCHANGED <<aRequests, aIndex>>
       ELSE LET stop == AttachmentLoop(aCall.attachments, aIndex + 1)
            IN  CASE stop.kind = "throw" ->
                       /\ aPc' = "done"
                       /\ aOutcome' = sendMail(aCall, NoAnswer)
                       /\ UNCHANGED <<aRequests, aIndex>>
                  [] stop.kind = "download" ->
                       /\ aPc' = "downloading"
                       /\ aOutcome' = aOutcome
                       /\ aRequests' = Append(aRequests, "download")
                       /\ aIndex' = stop.index
                  [] OTHER ->
                       /\ aPc' = "awaiting"
                       /\ aOutcome' = aOutcome
                       /\ aRequests' = Append(aRequests, "send")
                       /\ aIndex' = 0
    /\ UNCHANGED exceptAdapter

\* the provider (or the transport) answers and sendMail runs to its end
ProviderAnswers(answer) ==
    /\ aPc = "awaiting"
    /\ answer \in AnswersOf(aCall.adapter)
    /\ aAnswer' = answer
    /\ aOutcome' = sendMail(aCall, answer)
    /\ aPc' = "done"
    /\ UNCHANGED <<aCall, aRequests, aIndex, exceptAdapter>>

\* the orchestrator has taken the result
ResultTaken ==
    /\ aPc = "done"
    /\ aPc' = "idle"
    /\ aCall' = NoCall
    /\ aAnswer' = NoAnswer
    /\ aOutcome' = [kind |-> "none"]
    /\ aRequests' = <<>>
    /\ aIndex' = 0
    /\ UNCHANGED exceptAdapter

AllAnswers ==
    ResendAnswers \cup MandrillAnswers \cup GenericRestAnswers \cup OneSignalAnswers
    \cup TelegramAnswers \cup SmtpAnswers \cup SesAnswers

AdapterNext ==
    \/ \E call \in Calls : SendMail(call)
    \/ \E ok \in BOOLEAN : DownloadEnds(ok)
    \/ \E answer \in AllAnswers : ProviderAnswers(answer)
    \/ ResultTaken


\* ---------------------------------------------------------------------------
\* Idempotency-key derivation (OneSignal and Resend sendMail)
\* ---------------------------------------------------------------------------

\* Caller keys: job ids, a free-form key, and keys in UUID form
IdempotencyKeys ==
    {<<"1">>,
     <<"2">>,
     <<"3">>,
     <<"4">>,
     <<"5">>,
     <<"6">>,
     <<"7">>,
     <<"8">>,
     <<"9">>,
     <<"1", "0">>,
     <<"1", "1">>,
     <<"1", "2">>,
     <<"1", "3">>,
     <<"1", "4">>,
     <<"1", "5">>,
     <<"1", "6">>,
     <<"1", "7">>,
     <<"1", "8">>,
     <<"1", "9">>,
     <<"2", "0">>,
     <<"2", "1">>,
     <<"2", "2">>,
     <<"2", "3">>,
     <<"2", "4">>,
     <<"2", "5">>,
     <<"2", "6">>,
     <<"2", "7">>,
     <<"2", "8">>,
     <<"2", "9">>,
     <<"3", "0">>,
     <<"j", "o", "b", "-", "1">>,
     <<"1", "2", "3", "e", "4", "5", "6", "7", "-", "e", "8", "9", "b", "-", "4", "2", "d", "3", "-", "a", "4", "5", "6", "-", "4", "2", "6", "6", "1", "4", "1", "7", "4", "0", "0", "0">>,
     <<"1", "2", "3", "E", "4", "5", "6", "7", "-", "E", "8", "9", "B", "-", "4", "2", "D", "3", "-", "A", "4", "5", "6", "-", "4", "2", "6", "6", "1", "4", "1", "7", "4", "0", "0", "0">>,
     <<"0", "0", "0", "0", "0", "0", "0", "0", "-", "0", "0", "0", "0", "-", "0", "0", "0", "0", "-", "0", "0", "0", "0", "-", "0", "0", "0", "0", "0", "0", "0", "0", "0", "0", "0", "0">>}

HexLower == {"0", "1", "2", "3", "4", "5", "6", "7", "8", "9", "a", "b", "c", "d", "e", "f"}
HexAnyCase == HexLower \cup {"A", "B", "C", "D", "E", "F"}

\* crypto.createHash('sha1').update(key).digest('hex'): the SHA-1 digests of
\* the keys above
sha1Hex(key) ==
    CASE
         key = <<"1">> ->
           <<"3", "5", "6", "a", "1", "9", "2", "b", "7", "9", "1", "3", "b", "0", "4", "c", "5", "4", "5", "7", "4", "d", "1", "8", "c", "2", "8", "d", "4", "6", "e", "6", "3", "9", "5", "4", "2", "8", "a", "b">>
      [] key = <<"2">> ->
           <<"d", "a", "4", "b", "9", "2", "3", "7", "b", "a", "c", "c", "c", "d", "f", "1", "9", "c", "0", "7", "6", "0", "c", "a", "b", "7", "a", "e", "c", "4", "a", "8", "3", "5", "9", "0", "1", "0", "b", "0">>
      [] key = <<"3">> ->
           <<"7", "7", "d", "e", "6", "8", "d", "a", "e", "c", "d", "8", "2", "3", "b", "a", "b", "b", "b", "5", "8", "e", "d", "b", "1", "c", "8", "e", "1", "4", "d", "7", "1", "0", "6", "e", "8", "3", "b", "b">>
      [] key = <<"4">> ->
           <<"1", "b", "6", "4", "5", "3", "8", "9", "2", "4", "7", "3", "a", "4", "6", "7", "d", "0", "7", "3", "7", "2", "d", "4", "5", "e", "b", "0", "5", "a", "b", "c", "2", "0", "3", "1", "6", "4", "7", "a">>
      [] key = <<"5">> ->
           <<"a", "c", "3", "4", "7", "8", "d", "6", "9", "a", "3", "c", "8", "1", "f", "a", "6", "2", "e", "6", "0", "f", "5", "c", "3", "6", "9", "6", "1", "6", "5", "a", "4", "e", "5", "e", "6", "a", "c", "4">>
      [] key = <<"6">> ->
           <<"c", "1", "d", "f", "d", "9", "6", "e", "e", "a", "8", "c", "c", "2", "b", "6", "2", "7", "8", "5", "2", "7", "5", "b", "c", "a", "3", "8", "a", "c", "2", "6", "1", "2", "5", "6", "e", "2", "7", "8">>
      [] key = <<"7">> ->
           <<"9", "0", "2", "b", "a", "3", "c", "d", "a", "1", "8", "8", "3", "8", "0", "1", "5", "9", "4", "b", "6", "e", "1", "b", "4", "5", "2", "7", "9", "0", "c", "c", "5", "3", "9", "4", "8", "f", "d", "a">>
      [] key = <<"8">> ->
           <<"f", "e", "5", "d", "b", "b", "c", "e", "a", "5", "c", "e", "7", "e", "2", "9", "8", "8", "b", "8", "c", "6", "9", "b", "c", "f", "d", "f", "d", "e", "8", "9", "0", "4", "a", "a", "b", "c", "1", "f">>
      [] key = <<"9">> ->
           <<"0", "a", "d", "e", "7", "c", "2", "c", "f", "9", "7", "f", "7", "5", "d", "0", "0", "9", "9", "7", "5", "f", "4", "d", "7", "2", "0", "d", "1", "f", "a", "6", "c", "1", "9", "f", "4", "8", "9", "7">>
      [] key = <<"1", "0">> ->
           <<"b", "1", "d", "5", "7", "8", "1", "1", "1", "1", "d", "8", "4", "f", "7", "b", "3", "f", "e", "4", "5", "a", "0", "8", "5", "2", "e", "5", "9", "7", "5", "8", "c", "d", "7", "a", "8", "7", "e", "5">>
      [] key = <<"1", "1">> ->
           <<"1", "7", "b", "a", "0", "7", "9", "1", "4", "9", "9", "d", "b", "9", "0", "8", "4", "3", "3", "b", "8", "0", "f", "3", "7", "c", "5", "f", "b", "c", "8", "9", "b", "8", "7", "0", "0", "8", "4", "b">>
      [] key = <<"1", "2">> ->
           <<"7", "b", "5", "2", "0", "0", "9", "b", "6", "4", "f", "d", "0", "a", "2", "a", "4", "9", "e", "6", "d", "8", "a", "9", "3", "9", "7", "5", "3", "0", "7", "7", "7", "9", "2", "b", "0", "5", "5", "4">>
      [] key = <<"1", "3">> ->
           <<"b", "d", "3", "0", "7", "a", "3", "e", "c", "3", "2", "9", "e", "1", "0", "a", "2", "c", "f", "f", "8", "f", "b", "8", "7", "4", "8", "0", "8", "2", "3", "d", "a", "1", "1", "4", "f", "8", "f", "4">>
      [] key = <<"1", "4">> ->
           <<"f", "a", "3", "5", "e", "1", "9", "2", "1", "2", "1", "e", "a", "b", "f", "3", "d", "a", "b", "f", "9", "f", "5", "e", "a", "6", "a", "b", "d", "b", "c", "b", "c", "1", "0", "7", "a", "c", "3", "b">>
      [] key = <<"1", "5">> ->
           <<"f", "1", "a", "b", "d", "6", "7", "0", "3", "5", "8", "e", "0", "3", "6", "c", "3", "1", "2", "9", "6", "e", "6", "6", "b", "3", "b", "6", "6", "c", "3", "8", "2", "a", "c", "0", "0", "8", "1", "2">>
      [] key = <<"1", "6">> ->
           <<"1", "5", "7", "4", "b", "d", "d", "b", "7", "5", "c", "7", "8", "a", "6", "f", "d", "2", "2", "5", "1", "d", "6", "1", "e", "2", "9", "9", "3", "b", "5", "1", "4", "6", "2", "0", "1", "3", "1", "9">>
      [] key = <<"1", "7">> ->
           <<"0", "7", "1", "6", "d", "9", "7", "0", "8", "d", "3", "2", "1", "f", "f", "b", "6", "a", "0", "0", "8", "1", "8", "6", "1", "4", "7", "7", "9", "e", "7", "7", "9", "9", "2", "5", "3", "6", "5", "c">>
      [] key = <<"1", "8">> ->
           <<"9", "e", "6", "a", "5", "5", "b", "6", "b", "4", "5", "6", "3", "e", "6", "5", "2", "a", "2", "3", "b", "e", "9", "d", "6", "2", "3", "c", "a", "5", "0", "5", "5", "c", "3", "5", "6", "9", "4", "0">>
      [] key = <<"1", "9">> ->
           <<"b", "3", "f", "0", "c", "7", "f", "6", "b", "b", "7", "6", "3", "a", "f", "1", "b", "e", "9", "1", "d", "9", "e", "7", "4", "e", "a", "b", "f", "e", "b", "1", "9", "9", "d", "c", "1", "f", "1", "f">>
      [] key = <<"2", "0">> ->
           <<"9", "1", "0", "3", "2", "a", "d", "7", "b", "b", "c", "b", "6", "c", "f", "7", "2", "8", "7", "5", "e", "8", "e", "8", "2", "0", "7", "d", "c", "f", "b", "a", "8", "0", "1", "7", "3", "f", "7", "c">>
      [] key = <<"2", "1">> ->
           <<"4", "7", "2", "b", "0", "7", "b", "9", "f", "c", "f", "2", "c", "2", "4", "5", "1", "e", "8", "7", "8", "1", "e", "9", "4", "4", "b", "f", "5", "f", "7", "7", "c", "d", "8", "4", "5", "7", "c", "8">>
      [] key = <<"2", "2">> ->
           <<"1", "2", "c", "6", "f", "c", "0", "6", "c", "9", "9", "a", "4", "6", "2", "3", "7", "5", "e", "e", "b", "3", "f", "4", "3", "d", "f", "d", "8", "3", "2", "b", "0", "8", "c", "a", "9", "e", "1", "7">>
      [] key = <<"2", "3">> ->
           <<"d", "4", "3", "5", "a", "6", "c", "d", "d", "7", "8", "6", "3", "0", "0", "d", "f", "f", "2", "0", "4", "e", "e", "7", "c", "2", "e", "f", "9", "4", "2", "d", "3", "e", "9", "0", "3", "4", "e", "2">>
      [] key = <<"2", "4">> ->
           <<"4", "d", "1", "3", "4", "b", "c", "0", "7", "2", "2", "1", "2", "a", "c", "e", "2", "d", "f", "3", "8", "5", "d", "a", "e", "1", "4", "3", "1", "3", "9", "d", "a", "7", "4", "e", "c", "0", "e", "f">>
      [] key = <<"2", "5">> ->
           <<"f", "6", "e", "1", "1", "2", "6", "c", "e", "d", "e", "b", "f", "2", "3", "e", "1", "4", "6", "3", "a", "e", "e", "7", "3", "f", "9", "d", "f", "0", "8", "7", "8", "3", "6", "4", "0", "4", "0", "0">>
      [] key = <<"2", "6">> ->
           <<"8", "8", "7", "3", "0", "9", "d", "0", "4", "8", "b", "e", "e", "f", "8", "3", "a", "d", "3", "e", "a", "b", "f", "2", "a", "7", "9", "a", "6", "4", "a", "3", "8", "9", "a", "b", "1", "c", "9", "f">>
      [] key = <<"2", "7">> ->
           <<"b", "c", "3", "3", "e", "a", "4", "e", "2", "6", "e", "5", "e", "1", "a", "f", "1", "4", "0", "8", "3", "2", "1", "4", "1", "6", "9", "5", "6", "1", "1", "3", "a", "4", "6", "5", "8", "7", "6", "3">>
      [] key = <<"2", "8">> ->
           <<"0", "a", "5", "7", "c", "b", "5", "3", "b", "a", "5", "9", "c", "4", "6", "f", "c", "4", "b", "6", "9", "2", "5", "2", "7", "a", "3", "8", "a", "8", "7", "c", "7", "8", "d", "8", "4", "0", "2", "8">>
      [] key = <<"2", "9">> ->
           <<"7", "7", "1", "9", "a", "1", "c", "7", "8", "2", "a", "1", "b", "a", "9", "1", "c", "0", "3", "1", "a", "6", "8", "2", "a", "0", "a", "2", "f", "8", "6", "5", "8", "2", "0", "9", "a", "d", "b", "f">>
      [] key = <<"3", "0">> ->
           <<"2", "2", "d", "2", "0", "0", "f", "8", "6", "7", "0", "d", "b", "d", "b", "3", "e", "2", "5", "3", "a", "9", "0", "e", "e", "e", "5", "0", "9", "8", "4", "7", "7", "c", "9", "5", "c", "2", "3", "d">>
      [] key = <<"j", "o", "b", "-", "1">> ->
           <<"c", "6", "a", "4", "e", "b", "7", "f", "9", "b", "d", "8", "9", "1", "4", "8", "8", "e", "e", "3", "6", "b", "6", "9", "e", "7", "2", "6", "a", "c", "5", "4", "4", "b", "5", "1", "8", "7", "5", "c">>
      [] key = <<"1", "2", "3", "e", "4", "5", "6", "7", "-", "e", "8", "9", "b", "-", "4", "2", "d", "3", "-", "a", "4", "5", "6", "-", "4", "2", "6", "6", "1", "4", "1", "7", "4", "0", "0", "0">> ->
           <<"0", "1", "3", "c", "b", "b", "a", "3", "0", "2", "9", "4", "7", "b", "b", "e", "5", "9", "f", "9", "6", "9", "5", "b", "b", "c", "b", "a", "b", "c", "9", "f", "1", "6", "5", "4", "8", "6", "3", "6">>
      [] key = <<"1", "2", "3", "E", "4", "5", "6", "7", "-", "E", "8", "9", "B", "-", "4", "2", "D", "3", "-", "A", "4", "5", "6", "-", "4", "2", "6", "6", "1", "4", "1", "7", "4", "0", "0", "0">> ->
           <<"5", "f", "5", "a", "9", "d", "a", "7", "d", "4", "f", "f", "9", "6", "f", "4", "d", "9", "7", "1", "8", "f", "2", "8", "8", "0", "8", "6", "6", "5", "e", "d", "a", "7", "f", "0", "f", "d", "c", "2">>
      [] key = <<"0", "0", "0", "0", "0", "0", "0", "0", "-", "0", "0", "0", "0", "-", "0", "0", "0", "0", "-", "0", "0", "0", "0", "-", "0", "0", "0", "0", "0", "0", "0", "0", "0", "0", "0", "0">> ->
           <<"b", "6", "0", "2", "d", "5", "9", "4", "a", "f", "d", "2", "b", "0", "b", "3", "2", "7", "e", "0", "7", "a", "0", "6", "f", "3", "6", "c", "a", "6", "a", "7", "e", "4", "2", "5", "4", "6", "d", "0">>

\* /^[0-9a-f]{8}-[0-9a-f]{4}-[1-5][0-9a-f]{3}-[89ab][0-9a-f]{3}-[0-9a-f]{12}$/i
uuidRegex(str) ==
    /\ Len(str) = 36
    /\ \A i \in 1..36 :
          IF i \in {9, 14, 19, 24} THEN str[i] = "-"
          ELSE IF i = 15 THEN str[i] \in {"1", "2", "3", "4", "5"}
          ELSE IF i = 20 THEN str[i] \in {"8", "9", "a", "b", "A", "B"}
          ELSE str[i] \in HexAnyCase

\* hash.substring(0, 8)-(8, 12)-(12, 16)-(16, 20)-(20, 32)
UuidLayout(hash) ==
    SubSeq(hash, 1, 8) \o <<"-">> \o SubSeq(hash, 9, 12) \o <<"-">> \o SubSeq(hash, 13, 16)
    \o <<"-">> \o SubSeq(hash, 17, 20) \o <<"-">> \o SubSeq(hash, 21, 32)

\* OneSignalAdapter.sendMail: payload.idempotency_key
OneSignalIdempotencyKey(key) ==
    IF uuidRegex(key) THEN key ELSE UuidLayout(sha1Hex(key))

\* ResendAdapter.sendMail: the Idempotency-Key header
ResendIdempotencyKey(key) == sha1Hex(key)

derive(key, format) ==
    IF format = "onesignal" THEN OneSignalIdempotencyKey(key) ELSE ResendIdempotencyKey(key)

DeriveInit ==
    /\ dKey = <<>>
    /\ dFormat = "none"
    /\ dTokens = <<>>

\* sendMail is called with a key: the adapter derives the provider token
DeriveKey(key, format) ==
    /\ dTokens = <<>>
    /\ dKey' = key
    /\ dFormat' = format
    /\ dTokens' = <<derive(key, format)>>
    /\ UNCHANGED exceptDerive

\* the job is retried with the same key: the token is derived once more
DeriveAgain ==
    /\ Len(dTokens) = 1
    /\ dTokens' = Append(dTokens, derive(dKey, dFormat))
    /\ UNCHANGED <<dKey, dFormat, exceptDerive>>

\* the job is over
ForgetKey ==
    /\ Len(dTokens) = 2
    /\ dKey' = <<>>
    /\ dFormat' = "none"
    /\ dTokens' = <<>>
    /\ UNCHANGED exceptDerive

DeriveNext ==
    \/ \E key \in IdempotencyKeys, format \in {"onesignal", "resend"} : DeriveKey(key, format)
    \/ DeriveAgain
    \/ ForgetKey

(***************************************************************************)
(* Channel adapters: webhook(event, headers).                               *)
(*                                                                         *)
(* Strings the code splits, joins or signs are sequences of tokens, so      *)
(* that concatenation and split() are computed.  A MAC is ideal: two MACs   *)
(* are equal exactly when algorithm, key and signed text are equal.         *)
(***************************************************************************)

\* One token of a string: a piece of literal text, a run of digits, or the
\* base64 text of a MAC
Lit(s) == [lit |-> s, n |-> 0, mac |-> <<>>]
Digits(n) == [lit |-> "digits", n |-> n, mac |-> <<>>]
Text(strings) == [i \in DOMAIN strings |-> Lit(strings[i])]

\* crypto.createHmac(algorithm, key).update(data).digest('base64'), one token
Hmac(algorithm, key, data) == [lit |-> "base64", n |-> 0, mac |-> <<algorithm, key, data>>]

\* String.prototype.split(separator): the pieces between the separators
RECURSIVE split(_, _)
split(str, separator) ==
    IF \A i \in DOMAIN str : str[i] # separator THEN <<str>>
    ELSE LET first == CHOOSE i \in DOMAIN str :
                          str[i] = separator /\ \A j \in 1..(i - 1) : str[j] # separator
         IN  <<SubSeq(str, 1, first - 1)>>
                 \o split(SubSeq(str, first + 1, Len(str)), separator)

\* Array.prototype.join(separator) over strings
RECURSIVE join(_, _)
join(pieces, separator) ==
    IF pieces = <<>> THEN <<>>
    ELSE IF Len(pieces) = 1 THEN pieces[1]
    ELSE pieces[1] \o <<separator>> \o join(Tail(pieces), separator)

\* what webhook returns for one surfaced event
WebhookEvent(status, messageId) == [status |-> status, messageId |-> messageId]

\* ---------------------------------------------------------------------------
\* Resend (Svix signatures)
\* ---------------------------------------------------------------------------

\* the clock, Math.floor(Date.now() / 1000)
Now == 1000

\* the tolerance of the timestamp test, in seconds
SvixTolerance == 300

\* a header value read as a number: digits, or text that Number() turns into NaN
Timestamp(n) == Digits(n)
NotANumber == Lit("soon")
isNaN(value) == value.lit # "digits"

SvixTimestamps ==
    {Timestamp(n) : n \in {Now - SvixTolerance - 1, Now - SvixTolerance, Now,
                           Now + SvixTolerance, Now + SvixTolerance + 1}}
        \cup {NotANumber}

\* Math.abs(now - svixTimestamp) > 300; every comparison with NaN is false
TooOld(now, svixTimestamp) ==
    /\ ~isNaN(svixTimestamp)
    /\ (IF now >= svixTimestamp.n THEN now - svixTimestamp.n ELSE svixTimestamp.n - now)
           > SvixTolerance

\* event.type of the payloads; "undefined": the payload has no type
ResendEventTypes ==
    {"email.sent", "email.delivered", "email.delivery_delayed", "email.bounced",
     "email.complained", "email.clicked", "email.opened", "email.scheduled", "undefined"}

\* a parsed payload; data says whether event.data is an object
\* email_id says whether event.data.email_id holds a value
ResendObjects ==
    {o \in [form : {"object"}, type : ResendEventTypes, data : BOOLEAN, email_id : BOOLEAN,
            text : {<<>>}] : o.email_id => o.data}

\* JSON.stringify(event) of a parsed payload
JSONstringify(event) ==
    Text(<<"{">>
        \o (IF event.type # "undefined" THEN <<"type", ":", event.type>> ELSE <<>>)
        \o (IF event.type # "undefined" /\ event.data THEN <<",">> ELSE <<>>)
        \o (IF event.data THEN <<"data", ":", "{">> ELSE <<>>)
        \o (IF event.email_id THEN <<"email_id", ":", "m1">> ELSE <<>>)
        \o (IF event.data THEN <<"}">> ELSE <<>>)
        \o <<"}">>)

ResendObject(type) ==
    [form |-> "object", type |-> type, data |-> TRUE, email_id |-> TRUE, text |-> <<>>]

\* the same document with a blank after each colon: other bytes, same meaning
Spaced(text) ==
    LET RECURSIVE Widen(_)
        Widen(s) == IF s = <<>> THEN <<>>
                    ELSE IF Head(s) = Lit(":") THEN <<Lit(":"), Lit(" ")>> \o Widen(Tail(s))
                    ELSE <<Head(s)>> \o Widen(Tail(s))
    IN  Widen(text)

\* a payload handed over unparsed (a string or a Buffer): it has no .type
ResendStrings ==
    {[form |-> "string", type |-> "undefined", data |-> FALSE, email_id |-> FALSE,
      text |-> t] :
        t \in {JSONstringify(ResendObject("email.delivered")),
               Spaced(JSONstringify(ResendObject("email.delivered")))}}

ResendEvents == ResendObjects \cup ResendStrings

\* lines 433-441
payloadString(event) ==
    IF event.form = "string" THEN event.text ELSE JSONstringify(event)

\* lines 445-450: the key bytes of the configured secret
SecretBytes(signingSecret) ==
    IF signingSecret = "whsec_k1" THEN "k1" ELSE signingSecret

\* line 443
signedContent(svixId, svixTimestamp, payload) ==
    <<svixId, Lit("."), svixTimestamp, Lit(".")>> \o payload

\* what a sender puts into svix-signature: entries "scheme,value" joined by blanks
SvixSchemes == {"v1", "v2"}
SvixSenderKeys == {"k1", "k2"}
SvixSignedTimestamps == {Timestamp(Now - SvixTolerance - 1), Timestamp(Now - SvixTolerance),
                         Timestamp(Now)}
SvixSignedBodies == {JSONstringify(ResendObject("email.delivered")),
                     JSONstringify(ResendObject("email.complained"))}

SvixEntries ==
    {<<Lit(scheme), Lit(","), Hmac("sha256", key, signedContent(Lit("msg_1"), ts, body))>> :
        scheme \in SvixSchemes, key \in SvixSenderKeys,
        ts \in SvixSignedTimestamps, body \in SvixSignedBodies}

\* an entry no verification accepts: made with another key
SvixDecoy ==
    <<Lit("v1"), Lit(","),
      Hmac("sha256", "k2", signedContent(Lit("msg_1"), Timestamp(Now), <<Lit("{"), Lit("}")>>))>>

SvixSignatureHeaders ==
    SvixEntries
        \cup {join(<<e, SvixDecoy>>, Lit(" ")) : e \in SvixEntries}
        \cup {join(<<SvixDecoy, e>>, Lit(" ")) : e \in SvixEntries}

ResendHeaders ==
    [svixId : {Null, Some(Lit("msg_1"))},
     svixTimestamp : {Null} \cup {Some(t) : t \in SvixTimestamps},
     svixSignature : {Null} \cup {Some(h) : h \in SvixSignatureHeaders}]

NoHeaders == [svixId |-> Null, svixTimestamp |-> Null, svixSignature |-> Null]

ResendConfigs == [webhookSigningSecret : {Null, Some("whsec_k1")}]

\* a comparison that does not look at the scheme label
SvixMatch_AnyScheme(svixSignature, signature) ==
    LET signatures == split(svixSignature, Lit(" "))
    IN  \E i \in DOMAIN signatures :
            LET parts == split(signatures[i], Lit(","))
            IN  Len(parts) >= 2 /\ parts[2] = <<signature>>

\* lines 457-461
SvixMatch(svixSignature, signature) ==
    LET signatures == split(svixSignature, Lit(" "))
    IN  \E i \in DOMAIN signatures :
            LET parts == split(signatures[i], Lit(","))
                scheme == parts[1]
            IN  /\ scheme = <<Lit("v1")>>
                /\ Len(parts) >= 2
                /\ parts[2] = <<signature>>

\* lines 415-467: TRUE when the request passes (or no secret is configured)
ResendVerified(config, event, headers) ==
    IF IsNull(config.webhookSigningSecret) THEN TRUE
    ELSE IF IsNull(headers.svixId) \/ IsNull(headers.svixTimestamp)
            \/ IsNull(headers.svixSignature) THEN FALSE
    ELSE IF TooOld(Now, Val(headers.svixTimestamp)) THEN FALSE
    ELSE SvixMatch(Val(headers.svixSignature),
                   Hmac("sha256", SecretBytes(Val(config.webhookSigningSecret)),
                        signedContent(Val(headers.svixId), Val(headers.svixTimestamp),
                                      payloadString(event))))

\* lines 477-504: the switch; Null where the code returns null
ResendStatus(type) ==
    CASE type = "email.sent" -> Null
      [] type = "email.delivered" -> Some("DELIVERED")
      [] type = "email.delivery_delayed" -> Null
      [] type = "email.bounced" -> Some("HARD-REJECT")
      [] type = "email.complained" -> Some("COMPLAINED")
      [] type = "email.clicked" -> Some("CLICKED")
      [] type = "email.opened" -> Some("OPENED")
      [] OTHER -> Null

\* lines 469-509
ResendMap(event) ==
    LET eventStatus == ResendStatus(event.type)
    IN  IF IsNull(eventStatus) THEN Return(Null)
        ELSE IF ~event.data THEN Throw(TypeError)
        ELSE Return(Some(WebhookEvent(Val(eventStatus),
                                      IF event.email_id THEN Some("m1") ELSE Null)))

ResendWebhook(config, event, headers) ==
    IF ~ResendVerified(config, event, headers) THEN Return(Null)
    ELSE ResendMap(event)

\* ---------------------------------------------------------------------------
\* OneSignal (shared-secret header).  An event kind is a sequence of characters.
\* ---------------------------------------------------------------------------

\* lines 289-304: the keys and values of EVENT_MAP, in order
EVENT_MAP ==
    <<<<<<"s", "e", "n", "t">>, "DELIVERED">>,
      <<<<"r", "e", "c", "e", "i", "v", "e", "d">>, "DELIVERED">>,
      <<<<"d", "e", "l", "i", "v", "e", "r", "e", "d">>, "DELIVERED">>,
      <<<<"o", "p", "e", "n", "e", "d">>, "OPENED">>,
      <<<<"c", "l", "i", "c", "k", "e", "d">>, "CLICKED">>,
      <<<<"b", "o", "u", "n", "c", "e", "d">>, "BOUNCED">>,
      <<<<"h", "a", "r", "d", "b", "o", "u", "n", "c", "e", "d">>, "BOUNCED">>,
      <<<<"f", "a", "i", "l", "e", "d">>, "FAILED">>,
      <<<<"e", "r", "r", "o", "r", "e", "d">>, "FAILED">>,
      <<<<"s", "p", "a", "m", "_", "r", "e", "p", "o", "r", "t">>, "COMPLAINT">>,
      <<<<"r", "e", "p", "o", "r", "t", "e", "d", "_", "a", "s", "_", "s", "p", "a", "m">>, "COMPLAINT">>,
      <<<<"u", "n", "s", "u", "b", "s", "c", "r", "i", "b", "e", "d">>, "UNSUBSCRIBED">>,
      <<<<"s", "u", "p", "r", "e", "s", "s", "e", "d">>, "BOUNCED">>,
      <<<<"s", "u", "p", "p", "r", "e", "s", "s", "e", "d">>, "BOUNCED">>>>

\* kinds that are no key of EVENT_MAP
OtherKinds ==
    {<<"e", "m", "a", "i", "l", ".", "o", "p", "e", "n", "e", "d">>,
     <<"l", "i", "n", "k", "_", "c", "l", "i", "c", "k", "e", "d">>,
     <<"m", "e", "s", "s", "a", "g", "e", ".", "s", "e", "n", "t">>,
     <<"p", "u", "s", "h", ".", "d", "e", "l", "i", "v", "e", "r", "e", "d">>,
     <<"s", "m", "s", ".", "r", "e", "c", "e", "i", "v", "e", "d">>,
     <<"u", "s", "e", "r", ".", "u", "n", "s", "u", "b", "s", "c", "r", "i", "b", "e", "d">>,
     <<"s", "p", "a", "m">>,
     <<"r", "e", "b", "o", "u", "n", "d">>,
     <<"f", "a", "i", "l", "u", "r", "e">>,
     <<"q", "u", "e", "u", "e", "d">>,
     <<"c", "o", "n", "s", "t", "r", "u", "c", "t", "o", "r">>,
     <<"t", "o", "S", "t", "r", "i", "n", "g">>}

OneSignalKinds == {EVENT_MAP[i][1] : i \in DOMAIN EVENT_MAP} \cup OtherKinds

\* names every object literal inherits from Object.prototype
ObjectPrototypeKeys == {<<"c", "o", "n", "s", "t", "r", "u", "c", "t", "o", "r">>, <<"t", "o", "S", "t", "r", "i", "n", "g">>}

\* String.prototype.includes
includes(str, pattern) ==
    \E i \in 0..(Len(str) - Len(pattern)) : SubSeq(str, i + 1, i + Len(pattern)) = pattern

\* EVENT_MAP[kind]: the own value, an inherited function, or undefined (Null)
EventMapLookup(kind) ==
    IF \E i \in DOMAIN EVENT_MAP : EVENT_MAP[i][1] = kind
    THEN Some(EVENT_MAP[CHOOSE i \in DOMAIN EVENT_MAP : EVENT_MAP[i][1] = kind][2])
    ELSE IF kind \in ObjectPrototypeKeys THEN Some("function")
    ELSE Null

\* lines 311-317: the fuzzy matching fallback
FuzzyType(kind) ==
    IF includes(kind, <<"o", "p", "e", "n", "e", "d">>) THEN "OPENED"
    ELSE IF includes(kind, <<"c", "l", "i", "c", "k", "e", "d">>) THEN "CLICKED"
    ELSE IF includes(kind, <<"s", "e", "n", "t">>) \/ includes(kind, <<"d", "e", "l", "i", "v", "e", "r", "e", "d">>)
            \/ includes(kind, <<"r", "e", "c", "e", "i", "v", "e", "d">>) THEN "DELIVERED"
    ELSE IF includes(kind, <<"u", "n", "s", "u", "b", "s", "c", "r", "i", "b", "e", "d">>) THEN "UNSUBSCRIBED"
    ELSE IF includes(kind, <<"s", "p", "a", "m">>) THEN "COMPLAINT"
    ELSE IF includes(kind, <<"b", "o", "u", "n">>) THEN "BOUNCED"
    ELSE IF includes(kind, <<"f", "a", "i", "l">>) THEN "FAILED"
    ELSE "UNKNOWN"

\* lines 306-318: eventData.kind (Null: undefined) to the intermediate type
OneSignalType(kind) ==
    IF IsNull(kind) THEN "UNKNOWN"
    ELSE IF ~IsNull(EventMapLookup(Val(kind))) THEN Val(EventMapLookup(Val(kind)))
    ELSE FuzzyType(Val(kind))

\* lines 329-339: STATUS_MAP[type], Null where the key is missing
STATUS_MAP(type) ==
    CASE type = "DELIVERED" -> Some("ACCEPTED")
      [] type = "OPENED" -> Some("OPENED")
      [] type = "CLICKED" -> Some("CLICKED")
      [] type = "BOUNCED" -> Some("HARD-REJECT")
      [] type = "FAILED" -> Some("SOFT-REJECT")
      [] type = "COMPLAINT" -> Some("COMPLAINED")
      [] type = "UNSUBSCRIBED" -> Some("HARD-REJECT")
      [] OTHER -> Null

\* the payload: event.event.kind, event.event.external_id, event.message.id
OneSignalEvents ==
    [kind : {Null} \cup {Some(k) : k \in OneSignalKinds},
     external_id : {Null, Some("m1")}, id : {Null, Some("n1")}]

\* the request headers: at most one header that matters, [name, value]
OneSignalHeaders ==
    {Null} \cup {Some([name |-> n, value |-> v]) :
                    n \in {"x-auth", "X-Auth", "x-other"}, v \in {"s3cret", "wrong"}}

OneSignalConfigs ==
    {[webhookHeaderKey |-> Null, webhookHeaderValue |-> Null],
     [webhookHeaderKey |-> Some("X-Auth"), webhookHeaderValue |-> Null],
     [webhookHeaderKey |-> Some("X-Auth"), webhookHeaderValue |-> Some("s3cret")]}

\* lines 269-277: TRUE when the request passes (or nothing is configured)
OneSignalVerified(config, headers) ==
    IF IsNull(config.webhookHeaderKey) \/ IsNull(config.webhookHeaderValue) THEN TRUE
    ELSE LET found == /\ ~IsNull(headers)
                      /\ toLowerCase(Val(headers).name)
                             = toLowerCase(Val(config.webhookHeaderKey))
             value == IF found THEN Some(Val(headers).value) ELSE Null
         IN  value = config.webhookHeaderValue

\* lines 279-350
OneSignalMap(event) ==
    LET type == OneSignalType(event.kind)
        externalId == IF ~IsNull(event.external_id) THEN event.external_id ELSE event.id
        status == STATUS_MAP(type)
    IN  IF type = "UNKNOWN" THEN Return(Null)
        ELSE IF IsNull(status) THEN Return(Null)
        ELSE Return(Some(WebhookEvent(Val(status), externalId)))

OneSignalWebhook(config, event, headers) ==
    IF ~OneSignalVerified(config, headers) THEN Throw(JsError("plain"))
    ELSE OneSignalMap(event)

\* ---------------------------------------------------------------------------
\* Mandrill (signature over the sorted body fields).  A field name is a
\* sequence of characters, a field value a sequence of tokens.
\* ---------------------------------------------------------------------------

\* how many events one webhook body carries at most
MaxEvents == 2

\* the characters of the field names, in ascending order of their code units
KeyAlphabet == <<"_", "a", "d", "e", "i", "l", "m", "n", "r", "s", "t", "v", "z">>
CodeUnit(c) == CHOOSE i \in DOMAIN KeyAlphabet : KeyAlphabet[i] = c

\* the default comparison of Array.prototype.sort: by code units, a prefix first
RECURSIVE Before(_, _)
Before(a, b) ==
    IF a = <<>> THEN b # <<>>
    ELSE IF b = <<>> THEN FALSE
    ELSE IF Head(a) # Head(b) THEN CodeUnit(Head(a)) < CodeUnit(Head(b))
    ELSE Before(Tail(a), Tail(b))

\* the keys in descending order
RECURSIVE sort_Descending(_)
sort_Descending(keys) ==
    IF keys = {} THEN <<>>
    ELSE LET greatest == CHOOSE k \in keys : \A other \in keys \ {k} : Before(other, k)
         IN  <<greatest>> \o sort_Descending(keys \ {greatest})

\* Object.keys(body).sort()
RECURSIVE sort(_)
sort(keys) ==
    IF keys = {} THEN <<>>
    ELSE LET least == CHOOSE k \in keys : \A other \in keys \ {k} : Before(k, other)
         IN  <<least>> \o sort(keys \ {least})

mandrill_events == <<"m", "a", "n", "d", "r", "i", "l", "l", "_", "e", "v", "e", "n", "t", "s">>
KeyA == <<"a">>
KeyZ == <<"z">>

\* event names of the payloads: the keys of statusMap, one unknown name and
\* one name every object literal inherits
MandrillEventTypes ==
    {"send", "deferral", "hard_bounce", "soft_bounce", "delivered", "open", "click",
     "spam", "unsub", "reject", "inbound", "constructor"}

\* one more event object: a delivered event that has no msg
BareDelivered == "delivered, no msg"

\* webhookEvent.event and (webhookEvent.msg || {})._id of an event object
eventOf(webhookEvent) == IF webhookEvent = BareDelivered THEN "delivered" ELSE webhookEvent
msgIdOf(webhookEvent) == IF webhookEvent = BareDelivered THEN Null ELSE Some("m1")

MandrillEventLists ==
    UNION {[1..n -> MandrillEventTypes \cup {BareDelivered}] : n \in 0..MaxEvents}

\* the JSON text of a list of events; one token stands for one event object
EventsText(events) ==
    <<"[">> \o join([i \in DOMAIN events |-> <<events[i]>>], ",") \o <<"]">>

\* a field value: a string, or an array of events
StringValue(text) == [isArray |-> FALSE, text |-> text, events |-> <<>>]
ArrayValue(events) == [isArray |-> TRUE, text |-> <<>>, events |-> events]

\* String(value), as the + operator applies it
String(value) ==
    IF value.isArray
    THEN join([i \in DOMAIN value.events |-> <<"[object Object]">>], ",")
    ELSE value.text

MandrillEventsValues ==
    {StringValue(EventsText(l)) : l \in MandrillEventLists}
        \cup {ArrayValue(l) : l \in MandrillEventLists}
        \cup {StringValue(<<>>), StringValue(<<"[", "send">>), StringValue(<<"{", "}">>)}

ExtraValues == {StringValue(<<"x">>), StringValue(<<"y">>)}

\* the bodies: mandrill_events or not, and at most one further field
MandrillBodies ==
    {<<>>}
        \cup {(mandrill_events :> v) : v \in MandrillEventsValues}
        \cup {(key :> x) : key \in {KeyA}, x \in ExtraValues}
        \cup {(mandrill_events :> v) @@ (key :> x) :
                  v \in MandrillEventsValues, key \in {KeyA, KeyZ}, x \in ExtraValues}

\* the keys senders sign with, and the address of the endpoint (one token)
MandrillSenderKeys == {"key1", "key2"}
MandrillUrl == <<"https://hooks.example/mandrill">>

\* neither setting, both, or the key without the URL
MandrillConfigs ==
    {[webhookKey |-> Null, webhookUrl |-> Null],
     [webhookKey |-> Some("key1"), webhookUrl |-> Some(MandrillUrl)],
     [webhookKey |-> Some("key1"), webhookUrl |-> Null]}

\* lines 624-630: the URL followed by key + value of every field, keys sorted
RECURSIVE AppendFields(_, _, _)
AppendFields(signedData, sortedKeys, body) ==
    IF sortedKeys = <<>> THEN signedData
    ELSE AppendFields(signedData \o Head(sortedKeys) \o String(body[Head(sortedKeys)]),
                      Tail(sortedKeys), body)

SignedData(webhookUrl, body) == AppendFields(webhookUrl, sort(DOMAIN body), body)

\* lines 615-644; headers: Null or the one header [name, value] that matters
_verifyWebhookSignature(config, body, headers) ==
    LET signature ==
            IF ~IsNull(headers)
               /\ Val(headers).name \in {"x-mandrill-signature", "X-Mandrill-Signature"}
            THEN Some(Val(headers).value) ELSE Null
        expectedSignature ==
            Hmac("sha1", Val(config.webhookKey), SignedData(Val(config.webhookUrl), body))
    IN  IF IsNull(signature) THEN FALSE
        ELSE Val(signature) = expectedSignature

\* JSON.parse of the text: an array of events, another value, or a SyntaxError
JSONparse(text) ==
    IF text = <<"{", "}">> THEN [kind |-> "object", events |-> <<>>]
    ELSE IF Len(text) >= 2 /\ text[1] = "[" /\ text[Len(text)] = "]"
    THEN LET inner == SubSeq(text, 2, Len(text) - 1)
             pieces == split(inner, ",")
         IN  IF inner = <<>> THEN [kind |-> "array", events |-> <<>>]
             ELSE IF \E i \in DOMAIN pieces : Len(pieces[i]) # 1
             THEN [kind |-> "error", events |-> <<>>]
             ELSE [kind |-> "array", events |-> [i \in DOMAIN pieces |-> pieces[i][1]]]
    ELSE [kind |-> "error", events |-> <<>>]

\* lines 652-670; kind "null": the method returned null
_parseMandrillEvents(mandrillEvents) ==
    IF mandrillEvents.isArray THEN [kind |-> "array", events |-> mandrillEvents.events]
    ELSE LET parsed == JSONparse(mandrillEvents.text)
         IN  IF parsed.kind = "error" THEN [kind |-> "null", events |-> <<>>] ELSE parsed

\* a table that surfaces send
statusMap_SendSurfaced(eventType) ==
    CASE eventType = "send" -> Some("ACCEPTED")
      [] eventType \in {"hard_bounce", "reject"} -> Some("HARD-REJECT")
      [] eventType = "soft_bounce" -> Some("SOFT-REJECT")
      [] eventType = "delivered" -> Some("DELIVERED")
      [] eventType = "open" -> Some("OPENED")
      [] eventType = "click" -> Some("CLICKED")
      [] eventType = "spam" -> Some("COMPLAINED")
      [] eventType = "constructor" -> Some("function")
      [] OTHER -> Null

\* lines 681-692: statusMap[eventType]; Null for null and for a missing key,
\* and the inherited function for a name of Object.prototype
statusMap(eventType) ==
    CASE eventType = "send" -> Null
      [] eventType = "deferral" -> Null
      [] eventType = "hard_bounce" -> Some("HARD-REJECT")
      [] eventType = "soft_bounce" -> Some("SOFT-REJECT")
      [] eventType = "delivered" -> Some("DELIVERED")
      [] eventType = "open" -> Some("OPENED")
      [] eventType = "click" -> Some("CLICKED")
      [] eventType = "spam" -> Some("COMPLAINED")
      [] eventType = "unsub" -> Null
      [] eventType = "reject" -> Some("HARD-REJECT")
      [] eventType = "constructor" -> Some("function")
      [] OTHER -> Null

\* lines 694-712: the loop
RECURSIVE MandrillResults(_)
MandrillResults(events) ==
    IF events = <<>> THEN <<>>
    ELSE LET status == statusMap(eventOf(Head(events)))
         IN  (IF IsNull(status) THEN <<>>
              ELSE <<[status |-> Val(status), messageId |-> msgIdOf(Head(events)),
                      event |-> eventOf(Head(events))]>>)
                 \o MandrillResults(Tail(events))

\* lines 678-715
_processWebhookEvents(events) ==
    LET results == MandrillResults(events)
    IN  IF Len(results) > 0 THEN Return(Some(results)) ELSE Return(Null)

\* lines 577-604
MandrillWebhook(config, body, headers) ==
    IF mandrill_events \notin DOMAIN body THEN Return(Null)
    ELSE IF ~body[mandrill_events].isArray /\ body[mandrill_events].text = <<>>
    THEN Return(Null)
    ELSE IF ~IsNull(config.webhookKey) /\ ~IsNull(config.webhookUrl)
            /\ ~_verifyWebhookSignature(config, body, headers)
    THEN Return(Null)
    ELSE LET events == _parseMandrillEvents(body[mandrill_events])
         IN  IF events.kind = "null" THEN Return(Null)
             ELSE IF events.kind = "object" THEN Throw(TypeError)
             ELSE IF Len(events.events) = 0 THEN Return(Null)
             ELSE _processWebhookEvents(events.events)

\* Mandrill's side: HMAC-SHA1 over the URL followed by key and value of every
\* POST variable, the variables in ascending order of their names
AscendingKeys == <<KeyA, mandrill_events, KeyZ>>

MandrillSigns(webhookUrl, body) ==
    LET text[i \in 0..Len(AscendingKeys)] ==
            IF i = 0 THEN webhookUrl
            ELSE IF AscendingKeys[i] \in DOMAIN body
            THEN text[i - 1] \o AscendingKeys[i] \o body[AscendingKeys[i]].text
            ELSE text[i - 1]
    IN  text[Len(AscendingKeys)]

\* what Mandrill signs: bodies of strings.  The bodies a signature sent with
\* body may have been made for: body itself, or body before one field's value
\* was changed
ValuesBefore(key) ==
    IF key = mandrill_events
    THEN {StringValue(EventsText(<<"delivered">>)), StringValue(EventsText(<<"send">>))}
    ELSE ExtraValues

OneValueChanged(body) ==
    UNION {{[body EXCEPT ![key] = v] : v \in ValuesBefore(key) \ {body[key]}} :
               key \in DOMAIN body}

SignedBodies(body) ==
    {b \in {body} \cup OneValueChanged(body) : \A key \in DOMAIN b : ~b[key].isArray}

MandrillHeaders(body) ==
    {Null}
        \cup {Some([name |-> "x-mandrill-signature",
                    value |-> Hmac("sha1", key, MandrillSigns(MandrillUrl, b))]) :
                  key \in MandrillSenderKeys, b \in SignedBodies(body)}
        \cup {Some([name |-> name,
                    value |-> Hmac("sha1", "key1", MandrillSigns(MandrillUrl, b))]) :
                  name \in {"X-Mandrill-Signature", "X-MANDRILL-SIGNATURE"},
                  b \in SignedBodies(body) \cap {body}}

\* ---------------------------------------------------------------------------
\* The adapters without provider webhooks, and the call
\* ---------------------------------------------------------------------------

\* SES, SMTP, Telegram, Generic REST: webhook returns null
SilentAdapters == {"ses", "smtp", "telegram", "generic-rest"}

NoRequest == [payload |-> <<>>, headers |-> <<>>]
NoConfig == [none |-> TRUE]

webhook(adapter, config, request) ==
    CASE adapter = "resend" -> ResendWebhook(config, request.payload, request.headers)
      [] adapter = "onesignal" -> OneSignalWebhook(config, request.payload, request.headers)
      [] adapter = "mandrill" -> MandrillWebhook(config, request.payload, request.headers)
      [] OTHER -> Return(Null)

WebhookInit ==
    /\ wPc = "idle"
    /\ wAdapter = "none"
    /\ wConfig = NoConfig
    /\ wRequest = NoRequest
    /\ wOutcome = Return(Null)

\* the provider (or anyone else) posts to the webhook endpoint of an adapter
Webhook(adapter, config, payload, headers) ==
    /\ wPc' = "done"
    /\ wAdapter' = adapter
    /\ wConfig' = config
    /\ wRequest' = [payload |-> payload, headers |-> headers]
    /\ wOutcome' = webhook(adapter, config, wRequest')
    /\ UNCHANGED exceptWebhook

ResendReceives ==
    /\ wPc = "idle"
    /\ \E config \in ResendConfigs, event \in ResendEvents :
           \E headers \in (IF IsNull(config.webhookSigningSecret) THEN {NoHeaders}
                           ELSE ResendHeaders) :
               Webhook("resend", config, event, headers)

OneSignalReceives ==
    /\ wPc = "idle"
    /\ \E config \in OneSignalConfigs, event \in OneSignalEvents,
          headers \in OneSignalHeaders :
           Webhook("onesignal", config, event, headers)

MandrillReceives ==
    /\ wPc = "idle"
    /\ \E config \in MandrillConfigs, body \in MandrillBodies :
           \E headers \in (IF IsNull(config.webhookKey) THEN {Null}
                           ELSE MandrillHeaders(body)) :
               Webhook("mandrill", config, body, headers)

SilentReceives ==
    /\ wPc = "idle"
    /\ \E adapter \in SilentAdapters : Webhook(adapter, NoConfig, <<>>, <<>>)

\* the caller takes the result
WebhookTaken ==
    /\ wPc = "done"
    /\ wPc' = "idle"
    /\ wAdapter' = "none"
    /\ wConfig' = NoConfig
    /\ wRequest' = NoRequest
    /\ wOutcome' = Return(Null)
    /\ UNCHANGED exceptWebhook

WebhookNext ==
    \/ ResendReceives
    \/ OneSignalReceives
    \/ MandrillReceives
    \/ SilentReceives
    \/ WebhookTaken


(***************************************************************************)
(* healthCheck of the seven adapters.                                       *)
(***************************************************************************)

\* GetAccount answers of the AWS SDK: ok carries `SendingEnabled !== false',
\* name carries EnforcementStatus
SesAccountAnswers ==
    {[NoAnswer EXCEPT !.kind = "sent", !.ok = e, !.name = n] :
        e \in BOOLEAN, n \in {"HEALTHY", "PROBATION", "SHUTDOWN", "none"}}
    \cup {a \in SesAnswers : a.kind = "error"}

\* transporter.verify() resolves or rejects
SmtpVerifyAnswers ==
    {[NoAnswer EXCEPT !.kind = "sent"]} \cup {a \in SmtpAnswers : a.kind = "error"}

\* getMe: Telegram's bodies, and an error status whose body says ok
TelegramProbeAnswers ==
    TelegramAnswers
    \cup {[NoAnswer EXCEPT !.kind = "response", !.status = 502, !.body = "json", !.ok = TRUE]}

ProbeAnswersOf(adapter) ==
    CASE adapter = "ses" -> SesAccountAnswers
      [] adapter = "smtp" -> SmtpVerifyAnswers
      [] adapter = "telegram" -> TelegramProbeAnswers
      [] OTHER -> AnswersOf(adapter)

\* ResendAdapter.healthCheck: GET /domains
ResendHealthCheck(answer) ==
    LET result == ResendRequest(answer)
    IN  IF result.kind = "threw" THEN Return("UNHEALTHY")
        ELSE IF ~result.result.success THEN Return("UNHEALTHY")
        ELSE Return("HEALTHY")

\* MandrillEmailAdapter.healthCheck: POST /users/ping.json
MandrillHealthCheck(answer) ==
    LET result == MandrillRequest(answer)
    IN  IF result.kind = "threw" THEN Return("UNHEALTHY")
        ELSE IF ~result.result.success THEN Return("UNHEALTHY")
        ELSE Return("HEALTHY")

\* GenericRestAdapter.validateConfig: its try block probes baseUrl, its catch
\* turns an exception into an unsuccessful result
validateConfig(answer) ==
    LET result == GenericRestRequest(answer)
    IN  IF result.kind = "threw" THEN [success |-> FALSE]
        ELSE [success |-> result.result.success]

\* GenericRestAdapter.healthCheck: no try of its own
GenericRestHealthCheck(answer) ==
    IF validateConfig(answer).success THEN Return("HEALTHY") ELSE Return("UNHEALTHY")

\* OneSignalAdapter.healthCheck: GET /apps/{appId}
OneSignalHealthCheck(answer) ==
    IF OneSignalRequest(answer).kind = "threw" THEN Return("UNHEALTHY")
    ELSE Return("HEALTHY")

\* TelegramAdapter.healthCheck: the HTTP status is not read, only the body's ok
TelegramHealthCheck(answer) ==
    IF answer.kind \in {"reject", "bodyfail"} THEN Return("UNHEALTHY")
    ELSE IF answer.body \in {"empty", "text"} THEN Return("UNHEALTHY")
    ELSE IF answer.body = "null" THEN Return("UNHEALTHY")
    ELSE IF answer.ok THEN Return("HEALTHY")
    ELSE Return("UNHEALTHY")

\* a helper whose catch is missing: the SDK's exception escapes
SesHealthCheck_NoCatch(answer) ==
    IF answer.kind = "error" THEN Throw(JsError("plain"))
    ELSE IF ~answer.ok THEN Return("UNHEALTHY")
    ELSE IF answer.name = "PROBATION" THEN Return("DEGRADED")
    ELSE Return("HEALTHY")

\* SesAdapter.healthCheck: GetAccountCommand
SesHealthCheck(answer) ==
    IF answer.kind = "error" THEN Return("UNHEALTHY")
    ELSE IF ~answer.ok THEN Return("UNHEALTHY")
    ELSE IF answer.name = "PROBATION" THEN Return("DEGRADED")
    ELSE Return("HEALTHY")

\* SmtpAdapter.healthCheck: transporter.verify()
SmtpHealthCheck(answer) ==
    IF answer.kind = "error" THEN Return("UNHEALTHY") ELSE Return("HEALTHY")

healthCheck(adapter, answer) ==
    CASE adapter = "resend" -> ResendHealthCheck(answer)
      [] adapter = "mandrill" -> MandrillHealthCheck(answer)
      [] adapter = "generic-rest" -> GenericRestHealthCheck(answer)
      [] adapter = "onesignal" -> OneSignalHealthCheck(answer)
      [] adapter = "telegram" -> TelegramHealthCheck(answer)
      [] adapter = "ses" -> SesHealthCheck(answer)
      [] adapter = "smtp" -> SmtpHealthCheck(answer)

HealthInit ==
    /\ hPc = "idle"
    /\ hAdapter = "none"
    /\ hAnswer = NoAnswer
    /\ hOutcome = [kind |-> "none"]

\* healthCheck() is called and issues its probe
HealthCheck ==
    /\ hPc = "idle"
    /\ \E adapter \in Adapters :
        hAdapter' = adapter
    /\ hPc' = "probing"
    /\ hAnswer' = NoAnswer
    /\ hOutcome' = [kind |-> "none"]
    /\ UNCHANGED exceptHealth

\* the probe ends, and healthCheck with it
ProbeAnswers ==
    /\ hPc = "probing"
    /\ \E answer \in ProbeAnswersOf(hAdapter) :
        /\ hAnswer' = answer
        /\ hOutcome' = healthCheck(hAdapter, answer)
    /\ hPc' = "done"
    /\ UNCHANGED <<hAdapter>>
    /\ UNCHANGED exceptHealth

\* the caller takes the status
HealthTaken ==
    /\ hPc = "done"
    /\ hPc' = "idle"
    /\ UNCHANGED <<hAdapter, hAnswer, hOutcome>>
    /\ UNCHANGED exceptHealth

HealthNext ==
    \/ HealthCheck
    \/ ProbeAnswers
    \/ HealthTaken


(***************************************************************************)
(* One adapter instance under concurrent invocations.  JavaScript runs an   *)
(* async method without interruption up to its first await, so an           *)
(* invocation is two steps: the part before the request, and the rest.      *)
(* An object is a value together with the place that holds it, so that a    *)
(* write through a shared reference reaches the instance.                   *)
(***************************************************************************)

MaxCalls == 2

HeaderNames == {"X-Env"}

HeaderValues == {"a", "b"}

\* header objects: a map from some header names to values
HeaderMaps == UNION {[names -> HeaderValues] : names \in SUBSET HeaderNames}

NoHeaderMap == [name \in {} |-> "a"]

\* config.customHeaders and data.headers: absent, or an object
HeaderOptions == {Null} \cup {Some(map) : map \in HeaderMaps}

\* the constructors: this.config = config; this.baseUrl; this.successCodes;
\* this.client / this.transporter
Constructed(adapter, customHeaders) ==
    [config |-> [customHeaders |-> customHeaders],
     baseUrl |-> CASE adapter = "resend" -> Some("https://api.resend.com")
                   [] adapter = "mandrill" -> Some("https://mandrillapp.com/api/1.0")
                   [] adapter = "onesignal" -> Some("https://onesignal.com/api/v1")
                   [] adapter = "telegram" -> Some("https://api.telegram.org/bot")
                   [] OTHER -> Null,
     successCodes |-> IF adapter = "generic-rest" THEN Some(successCodes) ELSE Null,
     client |-> CASE adapter = "ses" -> Some("SESv2Client")
                  [] adapter = "smtp" -> Some("transporter")
                  [] OTHER -> Null]

\* the adapters whose configuration has customHeaders
HeaderAdapters == {"generic-rest", "smtp"}

\* a helper that hands out the configuration's own object instead of a copy
_parseHeaders_Alias(headersConfig) ==
    IF IsNull(headersConfig) THEN [held |-> "local", value |-> NoHeaderMap]
    ELSE [held |-> "config", value |-> Val(headersConfig)]

\* _parseHeaders: a new object that the entries are copied into
_parseHeaders(headersConfig) ==
    IF IsNull(headersConfig) THEN [held |-> "local", value |-> NoHeaderMap]
    ELSE [held |-> "local", value |-> Val(headersConfig)]

\* Object.assign(target, source): source's entries win
ObjectAssign(target, source) == [target EXCEPT !.value = source @@ target.value]

\* the headers object after the part of sendMail that runs before the request
HeadersBeforeRequest(adapter, fields, dataHeaders) ==
    LET headers == _parseHeaders(fields.config.customHeaders)
    IN  IF IsNull(dataHeaders) THEN headers
        ELSE IF adapter = "generic-rest" THEN ObjectAssign(headers, Val(dataHeaders))
        ELSE [held |-> "data", value |-> Val(dataHeaders)]

\* the instance after the writes made to the object `headers'
Stored(fields, headers) ==
    IF headers.held = "config"
    THEN [fields EXCEPT !.config.customHeaders = Some(headers.value)]
    ELSE fields

Operations == {"sendMail", "webhook", "healthCheck", "validateConfig"}

NoInvocation == [op |-> "none", pc |-> "idle", headers |-> NoHeaderMap]

InstanceInit ==
    /\ iAdapter \in Adapters
    /\ \E customHeaders \in HeaderOptions :
        /\ iAdapter \notin HeaderAdapters => IsNull(customHeaders)
        /\ iFields = Constructed(iAdapter, customHeaders)
    /\ iConstructed = iFields
    /\ iCalls = [c \in 1..MaxCalls |-> NoInvocation]

\* one instance is constructed and no operation is invoked on it
InstanceRests == InstanceInit /\ iAdapter = "resend"

\* sendMail runs up to its request: Generic REST and SMTP build their headers
InvokeSendMail(c) ==
    /\ iCalls[c].pc \in {"idle", "done"}
    /\ \E dataHeaders \in HeaderOptions :
        IF iAdapter \in HeaderAdapters
        THEN LET headers == HeadersBeforeRequest(iAdapter, iFields, dataHeaders)
             IN  /\ iFields' = Stored(iFields, headers)
                 /\ iCalls' = [iCalls EXCEPT ![c] = [op |-> "sendMail", pc |-> "awaiting",
                                                     headers |-> headers.value]]
        ELSE /\ IsNull(dataHeaders)
             /\ iFields' = iFields
             /\ iCalls' = [iCalls EXCEPT ![c] = [op |-> "sendMail", pc |-> "awaiting",
                                                 headers |-> NoHeaderMap]]
    /\ UNCHANGED <<iAdapter, iConstructed>>
    /\ UNCHANGED exceptInstance

\* healthCheck or validateConfig runs up to its probe; Generic REST parses its
\* headers for the probe
InvokeProbe(c) ==
    /\ iCalls[c].pc \in {"idle", "done"}
    /\ \E op \in {"healthCheck", "validateConfig"} :
        LET headers == IF iAdapter = "generic-rest"
                       THEN _parseHeaders(iFields.config.customHeaders)
                       ELSE [held |-> "local", value |-> NoHeaderMap]
        IN  /\ iFields' = Stored(iFields, headers)
            /\ iCalls' = [iCalls EXCEPT ![c] = [op |-> op, pc |-> "awaiting",
                                                headers |-> headers.value]]
    /\ UNCHANGED <<iAdapter, iConstructed>>
    /\ UNCHANGED exceptInstance

\* webhook has no await: it runs to its end
InvokeWebhook(c) ==
    /\ iCalls[c].pc \in {"idle", "done"}
    /\ iCalls' = [iCalls EXCEPT ![c] = [op |-> "webhook", pc |-> "done",
                                        headers |-> NoHeaderMap]]
    /\ UNCHANGED <<iAdapter, iFields, iConstructed>>
    /\ UNCHANGED exceptInstance

\* the request of an invocation ends, and the invocation runs to its end
Resume(c) ==
    /\ iCalls[c].pc = "awaiting"
    /\ iCalls' = [iCalls EXCEPT ![c].pc = "done"]
    /\ UNCHANGED <<iAdapter, iFields, iConstructed>>
    /\ UNCHANGED exceptInstance

InstanceNext ==
    \/ \E c \in 1..MaxCalls : InvokeSendMail(c)
    \/ \E c \in 1..MaxCalls : InvokeProbe(c)
    \/ \E c \in 1..MaxCalls : InvokeWebhook(c)
    \/ \E c \in 1..MaxCalls : Resume(c)


(***************************************************************************)
(* One ThorMailClient under concurrent logical calls.  attempt and          *)
(* lastError are locals of each _request; this.retryConfig and              *)
(* this.#lastRateLimit belong to the client and are read where the code     *)
(* reads them.                                                              *)
(***************************************************************************)

ClientCalls == {"A", "B"}

\* the responses of the API: a success and a failure that is retried by
\* default; with each set of rate-limit headers
ConcurrentResponses ==
    [status : {200, 503}, code : {"none"}, hdr : {Null}, bodyRA : {Null},
     rl : RateLimitHeaderSets, data : {"d1"}]

\* the retry policies: the defaults, with maxRetries in 0..MaxRetriesBound
ConcurrentConfigs == {cfg \in RetryConfigs : /\ cfg.maxDelay = DefaultMaxDelay
                                             /\ cfg.retryOn = {429, 500, 502, 503, 504}
                                             /\ cfg.retryOnTimeout
                                             /\ cfg.retryOnNetwork}

\* started: the largest maxRetries in effect when the call started or put in
\* effect while one of its attempts was in flight (so: not during its waits);
\* passed: the calls that have been in a backoff wait ever since this call
\* started
IdleCall == [pc |-> "idle", attempt |-> 0, attemptsMade |-> 0, delay |-> 0,
             started |-> 0, passed |-> {}]

NoLast == [kind |-> "none", status |-> 0, rl |-> NoRateLimitHeaders]

\* a helper that keeps the event loop busy for the time of the wait
_delay_BusyWait(c) == ClientCalls

\* _delay: the calls a backoff wait of call c holds up; a timer promise
\* suspends the continuation that awaits it
_delay(c) == {c}

\* call c is held up by a backoff wait
Suspended(c) == \E d \in ClientCalls : kCalls[d].pc = "backoff" /\ c \in _delay(d)

\* configure({ retry })
configure(cfg, retry) == [cfg EXCEPT !.maxRetries = retry.maxRetries]

ConcurrentInit ==
    /\ kConfig \in ConcurrentConfigs
    /\ kCalls = [c \in ClientCalls |-> IdleCall]
    /\ kRateLimit = Null
    /\ kLast = NoLast

\* the client is constructed with its defaults and makes no call
ConcurrentRests == ConcurrentInit /\ kConfig.maxRetries = MaxRetriesBound

\* a logical call starts: _request up to its first fetch
Request(c) ==
    /\ kCalls[c].pc \in {"idle", "returned", "thrown"}
    /\ ~Suspended(c)
    /\ kCalls' = [kCalls EXCEPT ![c] =
                     [pc |-> "fetch", attempt |-> 0, attemptsMade |-> 1, delay |-> 0,
                      started |-> kConfig.maxRetries,
                      passed |-> {d \in ClientCalls : kCalls[d].pc = "backoff"}]]
    /\ UNCHANGED <<kConfig, kRateLimit, kLast>>
    /\ UNCHANGED exceptConcurrent

\* Math.random() = 0.5: no jitter (the single-call model explores the draws)
MiddleJitter == 0

\* what follows a failure of call c: suspend, or throw
AfterFailure(c, error, serverRetryAfter) ==
    IF _shouldRetry(kConfig, error, kCalls[c].attempt)
    THEN kCalls' = [kCalls EXCEPT ![c].pc = "backoff",
                       ![c].delay = _calculateBackoff(kConfig, kCalls[c].attempt,
                                                      serverRetryAfter, MiddleJitter)]
    ELSE kCalls' = [kCalls EXCEPT ![c].pc = "thrown"]

\* the fetch of call c resolves with a response
Responds(c) ==
    /\ kCalls[c].pc = "fetch"
    /\ ~Suspended(c)
    /\ \E resp \in ConcurrentResponses :
        /\ kRateLimit' = IF IsNull(_parseRateLimitHeaders(resp)) THEN kRateLimit
                         ELSE _parseRateLimitHeaders(resp)
        /\ kLast' = [kind |-> "response", status |-> resp.status, rl |-> resp.rl]
        /\ IF ResponseOk(resp.status)
           THEN kCalls' = [kCalls EXCEPT ![c].pc = "returned"]
           ELSE LET error == ThorMailError(resp.status, resp.code, RetryAfterOf(resp))
                IN  AfterFailure(c, error, error.retryAfter)
    /\ UNCHANGED <<kConfig>>
    /\ UNCHANGED exceptConcurrent

\* the fetch of call c rejects with a TypeError
Rejects(c) ==
    /\ kCalls[c].pc = "fetch"
    /\ ~Suspended(c)
    /\ kLast' = [NoLast EXCEPT !.kind = "typeerror"]
    /\ AfterFailure(c, ThorMailError(0, "NETWORK_ERROR", Null), Null)
    /\ UNCHANGED <<kConfig, kRateLimit>>
    /\ UNCHANGED exceptConcurrent

\* the backoff timer of call c fires: continue, attempt++, loop test, next fetch
TimerFires(c) ==
    /\ kCalls[c].pc = "backoff"
    /\ kCalls' = [d \in ClientCalls |->
                    IF d = c
                    THEN IF kCalls[c].attempt + 1 <= kConfig.maxRetries
                         THEN [kCalls[c] EXCEPT !.pc = "fetch", !.attempt = @ + 1,
                                                !.attemptsMade = @ + 1, !.delay = 0]
                         ELSE [kCalls[c] EXCEPT !.pc = "thrown", !.attempt = @ + 1,
                                                !.delay = 0]
                    ELSE [kCalls[d] EXCEPT !.passed = @ \ {c}]]
    /\ UNCHANGED <<kConfig, kRateLimit, kLast>>
    /\ UNCHANGED exceptConcurrent

\* client.configure({ retry: { maxRetries } })
Configure ==
    /\ \E maxRetries \in 0..MaxRetriesBound :
        /\ maxRetries # kConfig.maxRetries
        /\ kConfig' = configure(kConfig, [maxRetries |-> maxRetries])
        /\ kCalls' = [c \in ClientCalls |->
                        IF kCalls[c].pc = "fetch"
                        THEN [kCalls[c] EXCEPT !.started = Max(@, maxRetries)]
                        ELSE kCalls[c]]
    /\ UNCHANGED <<kRateLimit, kLast>>
    /\ UNCHANGED exceptConcurrent

ConcurrentNext ==
    \/ \E c \in ClientCalls : Request(c)
    \/ \E c \in ClientCalls : Responds(c)
    \/ \E c \in ClientCalls : Rejects(c)
    \/ \E c \in ClientCalls : TimerFires(c)
    \/ Configure


(***************************************************************************)
(* Generic REST: payloadTemplate.  A text is a sequence of segments: a      *)
(* literal piece, or a match of /\{\{([^}]+)\}\}/g with its group; the      *)
(* group is a sequence of pieces, blanks among them.                        *)
(***************************************************************************)

Literal(text) == [kind |-> "literal", text |-> text, inner |-> <<>>]
Placeholder(inner) == [kind |-> "match", text |-> "", inner |-> inner]

\* String.prototype.trim on a sequence of pieces
RECURSIVE trimStart(_)
trimStart(pieces) ==
    IF pieces # <<>> /\ Head(pieces) = " " THEN trimStart(Tail(pieces)) ELSE pieces

RECURSIVE trimEnd(_)
trimEnd(pieces) ==
    IF pieces # <<>> /\ pieces[Len(pieces)] = " "
    THEN trimEnd(SubSeq(pieces, 1, Len(pieces) - 1))
    ELSE pieces

trim(pieces) == trimEnd(trimStart(pieces))

\* the groups of the model's placeholders
Inners ==
    {<<"to">>, <<" ", "subject", " ">>, <<"body">>, <<"from_email">>, <<"from_name">>,
     <<"name">>, <<" ", "missing">>, <<"constructor">>, <<"toString">>}

\* the pieces of the model's templates: the frame of a JSON object with two
\* string members, and a text that is no JSON
JsonOpen == "{\"a\":\""
JsonBetween == "\",\"b\":\""
JsonClose == "\"}"
PlainStart == "to="

PayloadTemplates ==
    {<<Literal(JsonOpen), Placeholder(i), Literal(JsonBetween), Placeholder(j),
       Literal(JsonClose)>> : i, j \in Inners}
    \cup {<<Literal(PlainStart), Placeholder(i)>> : i \in Inners}

\* the values of the arguments; the second holds a double quote
PlainValue == "Ann"
QuotedValue == "say \"hi\""

\* the data argument: undefined, or an object with some of name, to, from_email
NoData == [name |-> Null, to |-> Null, from_email |-> Null]
DataArguments ==
    {Null}
    \cup {Some([name |-> n, to |-> t, from_email |-> f]) :
            n \in {Null, Some("Bob")}, t \in {Null, Some("other")},
            f \in {Null, Some("data@example.com")}}

TemplateInputs ==
    [payloadTemplate : PayloadTemplates,
     from_email : {Null, Some("config@example.com")},
     to : {PlainValue},
     subject : {PlainValue, QuotedValue},
     body : {PlainValue},
     data : DataArguments]

\* members every object inherits from Object.prototype, as String() shows them
ObjectPrototypeMembers ==
    [constructor |-> "function Object() { [native code] }",
     toString |-> "function toString() { [native code] }"]

\* a || b on values that are undefined or a non-empty string
Or(a, b) == IF IsNull(a) THEN b ELSE a

\* the object `replacements': its own properties (an own property may hold
\* undefined)
replacements(input) ==
    LET data == IF IsNull(input.data) THEN NoData ELSE Val(input.data)
        spread == IF IsNull(data.name) THEN <<>> ELSE [k \in {"name"} |-> data.name]
    IN  [k \in {"to", "subject", "body", "from_email", "from_name"} |->
            CASE k = "to" -> Some(input.to)
              [] k = "subject" -> Some(input.subject)
              [] k = "body" -> Some(input.body)
              [] k = "from_email" -> Or(input.from_email, data.from_email)
              [] k = "from_name" -> Null]
        @@ spread

\* replacements[key]: the own property, else the inherited one, else undefined
Property(object, key) ==
    IF key \in DOMAIN object THEN object[key]
    ELSE IF key \in DOMAIN ObjectPrototypeMembers THEN Some(ObjectPrototypeMembers[key])
    ELSE Null

\* templateStr.replace(/\{\{([^}]+)\}\}/g, (match, p1) => ...)
replace(templateStr, object) ==
    [n \in DOMAIN templateStr |->
        LET match == templateStr[n]
        IN  IF match.kind # "match" \/ trim(match.inner) = <<>> THEN match
            ELSE LET key == trim(match.inner)[1]
                 IN  IF ~IsNull(Property(object, key))
                     THEN [kind |-> "value", text |-> Val(Property(object, key)),
                           inner |-> <<>>]
                     ELSE match]

\* texts that may stand between the quotes of a JSON string as they are
NoQuote(segment) == segment.kind = "match" \/ segment.text # QuotedValue

\* JSON.parse succeeds: the frame of the object, and nothing in it that ends a
\* string early
IsJson(text) ==
    /\ Len(text) = 5
    /\ text[1] = Literal(JsonOpen)
    /\ text[3] = Literal(JsonBetween)
    /\ text[5] = Literal(JsonClose)
    /\ NoQuote(text[2]) /\ NoQuote(text[4])

\* the payloadTemplate branch of GenericRestAdapter.sendMail
TemplatePayload(input) ==
    LET payload == replace(input.payloadTemplate, replacements(input))
    IN  [parsed |-> IsJson(payload), text |-> payload]

NoTemplateInput ==
    [payloadTemplate |-> <<>>, from_email |-> Null, to |-> PlainValue,
     subject |-> PlainValue, body |-> PlainValue, data |-> Null]

TemplateInit ==
    /\ tPc = "idle"
    /\ tInput = NoTemplateInput
    /\ tPayload = [parsed |-> FALSE, text |-> <<>>]

\* sendMail builds its payload from the template
BuildPayload ==
    /\ tPc = "idle"
    /\ \E input \in TemplateInputs :
        /\ tInput' = input
        /\ tPayload' = TemplatePayload(input)
    /\ tPc' = "done"
    /\ UNCHANGED exceptTemplate

\* the payload goes to _request, and the locals of the call are gone
PayloadSent ==
    /\ tPc = "done"
    /\ tPc' = "idle"
    /\ tInput' = NoTemplateInput
    /\ tPayload' = [parsed |-> FALSE, text |-> <<>>]
    /\ UNCHANGED exceptTemplate

TemplateNext ==
    \/ BuildPayload
    \/ PayloadSent


\* the client is constructed with its defaults and makes no call
ClientRests ==
    /\ ClientInit
    /\ retryConfig = [maxRetries |-> MaxRetriesBound, baseDelay |-> DefaultBaseDelay,
                      maxDelay |-> DefaultMaxDelay, retryOn |-> {429, 500, 502, 503, 504},
                      retryOnTimeout |-> TRUE, retryOnNetwork |-> TRUE]

InitSendMail == ClientRests /\ AdapterInit /\ DeriveInit /\ WebhookInit /\ HealthInit /\ InstanceRests /\ ConcurrentRests /\ TemplateInit

SpecSendMail == InitSendMail /\ [][AdapterNext]_vars

InitDerive == ClientRests /\ AdapterInit /\ DeriveInit /\ WebhookInit /\ HealthInit /\ InstanceRests /\ ConcurrentRests /\ TemplateInit

SpecDerive == InitDerive /\ [][DeriveNext]_vars

InitWebhook == ClientRests /\ AdapterInit /\ DeriveInit /\ WebhookInit /\ HealthInit /\ InstanceRests /\ ConcurrentRests /\ TemplateInit

SpecWebhook == InitWebhook /\ [][WebhookNext]_vars

InitHealth == ClientRests /\ AdapterInit /\ DeriveInit /\ WebhookInit /\ HealthInit /\ InstanceRests /\ ConcurrentRests /\ TemplateInit

SpecHealth == InitHealth /\ [][HealthNext]_vars

InitInstance == ClientRests /\ AdapterInit /\ DeriveInit /\ WebhookInit /\ HealthInit /\ InstanceInit /\ ConcurrentRests /\ TemplateInit

SpecInstance == InitInstance /\ [][InstanceNext]_vars

InitConcurrent == ClientRests /\ AdapterInit /\ DeriveInit /\ WebhookInit /\ HealthInit /\ InstanceRests /\ ConcurrentInit /\ TemplateInit

SpecConcurrent == InitConcurrent /\ [][ConcurrentNext]_vars

InitTemplate == ClientRests /\ AdapterInit /\ DeriveInit /\ WebhookInit /\ HealthInit /\ InstanceRests /\ ConcurrentRests /\ TemplateInit

SpecTemplate == InitTemplate /\ [][TemplateNext]_vars

\* ---------------------------------------------------------------------------
\* The specification of the request engine of the client
\* ---------------------------------------------------------------------------

Init == ClientInit /\ AdapterInit /\ DeriveInit /\ WebhookInit /\ HealthInit /\ InstanceRests /\ ConcurrentRests /\ TemplateInit

Next == ClientNext

Spec == Init /\ [][Next]_vars

(***************************************************************************)
(* Properties of the request engine.                                        *)
(***************************************************************************)
IsResponse == lastEvent.kind = "response"
Is2xx == IsResponse /\ lastEvent.status \in 200..299

\* C2: one logical call issues at most maxRetries + 1 HTTP attempts, and an attempt
\* answered with a 2xx status makes the call return that response's data at once,
\* with no further attempt.
C2_AtMostMaxRetriesPlusOne ==
    /\ attemptsMade <= retryConfig.maxRetries + 1
    /\ Is2xx => /\ pc = "returned"
                /\ outcome = [kind |-> "returned", data |-> lastEvent.data]
    /\ pc = "returned" => Is2xx

\* C2 witness: a call that returned on its last permitted attempt, after retries
C2_Witness ==
    /\ pc = "returned"
    /\ lastEvent.status = 201
    /\ attemptsMade = retryConfig.maxRetries + 1
    /\ attemptsMade > 1

\* C3 (as claimed): a non-2xx response whose status is not in retryOn makes the call
\* throw a ThorMailError carrying that status right after that attempt; a response
\* whose status is in retryOn while attempts remain is followed by a backoff wait.
C3_StatusAloneDecides ==
    (IsResponse /\ ~Is2xx) =>
        /\ lastEvent.status \notin retryConfig.retryOn =>
              /\ pc = "thrown"
              /\ outcome.kind = "threw"
              /\ outcome.error.statusCode = lastEvent.status
        /\ (lastEvent.status \in retryConfig.retryOn
              /\ lastEvent.attempt < retryConfig.maxRetries) => pc = "backoff"

TimeoutError == ThorMailError(0, "TIMEOUT", Null)
NetworkError == ThorMailError(0, "NETWORK_ERROR", Null)

\* C4: a per-attempt timeout (abort) or connection failure is classified as TIMEOUT
\* or NETWORK_ERROR and ends only the attempt: the call suspends for a backoff and
\* then makes another attempt if and only if the matching flag is true and
\* attempt < maxRetries, and otherwise throws the classified error.
C4_TransportFailureRetriedIffFlag ==
    /\ [](/\ lastEvent.kind = "abort" =>
               IF retryConfig.retryOnTimeout /\ lastEvent.attempt < retryConfig.maxRetries
               THEN pc = "backoff" /\ lastError = Some(TimeoutError)
               ELSE pc = "thrown" /\ outcome = [kind |-> "threw", error |-> TimeoutError]
          /\ lastEvent.kind = "typeerror" =>
               IF retryConfig.retryOnNetwork /\ lastEvent.attempt < retryConfig.maxRetries
               THEN pc = "backoff" /\ lastError = Some(NetworkError)
               ELSE pc = "thrown" /\ outcome = [kind |-> "threw", error |-> NetworkError])
    /\ [][pc = "backoff" => /\ pc' = "fetch"
                            /\ attemptsMade' = attemptsMade + 1
                            /\ attempt' = attempt + 1]_vars

\* C4 witness: a second attempt is in flight after the first one timed out
C4_Witness ==
    /\ pc = "fetch"
    /\ attempt = 1
    /\ lastError = Some(TimeoutError)

\* the retry hint of the response just handled: the Retry-After header when it is
\* there, otherwise the body's retryAfter
ServerHint == IF ~IsNull(lastEvent.hdr) THEN lastEvent.hdr ELSE lastEvent.bodyRA
\* the hint the code acts on: the first of the two that is a positive number
PositiveHint ==
    IF Truthy(lastEvent.hdr) /\ Val(lastEvent.hdr) > 0 THEN lastEvent.hdr
    ELSE IF Truthy(lastEvent.bodyRA) /\ Val(lastEvent.bodyRA) > 0 THEN lastEvent.bodyRA
    ELSE Null

HintValues == {0, 1, 2, 5, 29, 30, 31, 45}

\* C5 (as claimed): the delay lies in [0, maxDelay], and when a server-supplied retry
\* hint of N seconds is present the delay is exactly min(N*1000, maxDelay).
C5_AnyHintIsExact ==
    pc = "backoff" =>
        /\ delay \in 0..retryConfig.maxDelay
        /\ (IsResponse /\ ~IsNull(ServerHint)) =>
              delay = Min(Val(ServerHint) * 1000, retryConfig.maxDelay)

\* C5 (amended): for every attempt number in 0..maxRetries and every jitter draw the
\* delay lies in [0, maxDelay]; when a server-supplied retry hint of N > 0 seconds is
\* present the delay is exactly min(N*1000, maxDelay), with no jitter applied.
C5_PositiveHintIsExact ==
    /\ \A a \in 0..retryConfig.maxRetries, j \in JitterDraws :
          /\ _calculateBackoff(retryConfig, a, Null, j) \in 0..retryConfig.maxDelay
          /\ \A n \in HintValues :
                /\ _calculateBackoff(retryConfig, a, Some(n), j) \in 0..retryConfig.maxDelay
                /\ n > 0 => _calculateBackoff(retryConfig, a, Some(n), j)
                               = Min(n * 1000, retryConfig.maxDelay)
    /\ pc = "backoff" =>
          /\ delay \in 0..retryConfig.maxDelay
          /\ (IsResponse /\ ~IsNull(PositiveHint)) =>
                delay = Min(Val(PositiveHint) * 1000, retryConfig.maxDelay)

\* C5 witness: a call suspended for the capped value of a 45-second hint
C5_Witness ==
    /\ pc = "backoff"
    /\ lastEvent.hdr = Some(45)
    /\ retryConfig.maxDelay = DefaultMaxDelay
    /\ delay = DefaultMaxDelay

\* the attempt just made ended in a failure the policy counts as retryable
RetryableFailure ==
    \/ IsResponse /\ ~Is2xx /\ lastEvent.status \in retryConfig.retryOn
    \/ lastEvent.kind = "abort" /\ retryConfig.retryOnTimeout
    \/ lastEvent.kind = "typeerror" /\ retryConfig.retryOnNetwork

\* C6 (as claimed): when every permitted attempt ended in a retryable failure, the
\* error thrown after the last attempt is the last classified error, annotated with
\* the number of attempts made.
C6_ExhaustionAnnotated ==
    (pc = "thrown" /\ RetryableFailure
        /\ attemptsMade = retryConfig.maxRetries + 1) =>
        /\ outcome.kind = "threw"
        /\ outcome.error.statusCode = lastEvent.status
        /\ outcome.error.annotated

(***************************************************************************)
(* Properties of the adapters' sendMail (specification SpecSendMail).       *)
(***************************************************************************)

SendMailDone == aPc = "done"
SendMailReturned == SendMailDone /\ aOutcome.kind = "returned"

\* C1: for every adapter, sendMail always returns a DeliveryResult and never
\* throws, whatever the provider answers (any HTTP status, an empty or non-JSON
\* body), whatever the transport does (fetch rejecting), and also when the
\* optional data argument is omitted.
C1_SendMailNeverThrows ==
    /\ aOutcome.kind # "threw"
    /\ SendMailDone => /\ aOutcome.kind = "returned"
                       /\ aOutcome.result.success \in BOOLEAN

\* An exception was raised inside sendMail (fetch rejected under OneSignal's
\* unwrapped _request) and the caller still got a failed DeliveryResult.
C1_Witness ==
    /\ SendMailReturned
    /\ aCall.adapter = "onesignal"
    /\ aAnswer.kind = "reject"
    /\ ~aOutcome.result.success

\* the HTTP status the provider answered with, if the answer has one
ProviderStatus ==
    IF aAnswer.kind = "response" THEN Some(aAnswer.status) ELSE aAnswer.httpStatusCode

KnownPermanentCode == aAnswer.name \in ResendPermanentErrors \cup MandrillPermanentErrors

\* C7 (as claimed): every adapter's sendMail reports a provider response with HTTP
\* status 429, 500, 502, 503 or 504, and no known-permanent provider code, as a
\* failed DeliveryResult with isTemporary = true.
C7_RetryableStatusIsTemporary ==
    (/\ SendMailDone
     /\ ~IsNull(ProviderStatus)
     /\ Val(ProviderStatus) \in TemporaryStatuses
     /\ ~KnownPermanentCode)
    => /\ aOutcome.kind = "returned"
       /\ ~aOutcome.result.success
       /\ aOutcome.result.isTemporary = "true"

\* provider codes for validation failure, bad sender, unknown template or target,
\* invalid credentials, payment required
PermanentProviderCodes ==
    {"validation_error", "invalid_from_address", "invalid_api_key", "missing_api_key",
     "not_found",
     "ValidationError", "Unknown_Sender", "Invalid_Sender", "Unknown_Template",
     "Invalid_Template", "Invalid_Key", "PaymentRequired"}

\* C8 (as claimed): in the Resend and Mandrill error classifiers, a failure with
\* HTTP status 400..405, or with a provider code for validation failure, bad
\* sender, unknown template/target, invalid credentials or payment required, is
\* returned with isTemporary = false, whatever the accompanying HTTP status.
C8_PermanentClassIsPermanent ==
    (/\ SendMailReturned
     /\ aCall.adapter \in {"resend", "mandrill"}
     /\ aAnswer.kind = "response"
     /\ aAnswer.body = "json"
     /\ ~aOutcome.result.success
     /\ aAnswer.status \in 400..405 \/ aAnswer.name \in PermanentProviderCodes)
    => aOutcome.result.isTemporary = "false"

\* a failure that matches no known class: a transport error, an exception the
\* adapter did not expect, or a provider error of unknown name and status
Unclassified ==
    \/ aAnswer.kind \in {"reject", "bodyfail"}
    \/ aCall.dataOmitted /\ aAnswer.kind = "none"
    \/ /\ aAnswer.kind = "response"
       /\ aAnswer.status = 418
       /\ aAnswer.name \in {"none", "teapot_error", "Strange_Error"}
    \/ /\ aAnswer.kind = "error"
       /\ aAnswer.name \in {"none", "UnknownError"}
       /\ aAnswer.code \in {"none", "EPROTOCOL"}
       /\ aAnswer.responseCode = 0
       /\ IsNull(aAnswer.httpStatusCode)

\* C9 (as claimed): in every adapter a sendMail failure that matches no known
\* class is reported with isTemporary = true.
C9_UnclassifiedIsTemporary ==
    (SendMailReturned /\ Unclassified /\ ~aOutcome.result.success)
    => aOutcome.result.isTemporary = "true"

\* C10 (as claimed): every DeliveryResult returned by an adapter's sendMail has
\* success true if and only if id is present and error is absent.
C10_SuccessIffIdAndNoError ==
    SendMailReturned =>
        (aOutcome.result.success <=> (aOutcome.result.id /\ ~aOutcome.result.error))

\* the call carries exactly one attachment, given by reference
OneReference == Len(aCall.attachments) = 1 /\ ~IsNull(aCall.attachments[1])

\* C11 (as claimed): for SES, Mandrill, SMTP and Resend, sendMail with an
\* attachment whose source is ftp://evil/x, file:///etc/passwd or a bare local
\* path returns {success: false, isTemporary: false, isLocalError: true} with no
\* network call issued, while an https source passes the check.
C11_LocalSourceIsLocalFailure ==
    (aPc # "idle" /\ OneReference) =>
        IF IsRemoteUrl(Val(aCall.attachments[1]))
        THEN aRequests # <<>>
        ELSE /\ SendMailReturned
             /\ aRequests = <<>>
             /\ ~aOutcome.result.success
             /\ aOutcome.result.isTemporary = "false"
             /\ aOutcome.result.isLocalError = "true"

\* C12 (as claimed): in SES and Mandrill sendMail, if any attachment of the list
\* has a source that is not http/https, the call issues no remote fetch and no
\* send request: it has made no network request when it returns its failure.
C12_CheckPrecedesEveryConnection ==
    (aCall.adapter \in {"ses", "mandrill"} /\ HasRejected(aCall)) => aRequests = <<>>

\* Resend answered that a request with the same idempotency key is in progress
ConcurrentIdempotency ==
    /\ aCall.adapter = "resend"
    /\ aAnswer.kind = "response"
    /\ ~ResponseOk(aAnswer.status)
    /\ aAnswer.body = "json"
    /\ aAnswer.name = "concurrent_idempotent_requests"

\* C13 (as claimed): when Resend reports concurrent_idempotent_requests, sendMail
\* returns success = true with an id (derived from the outbound payload), and
\* never a failed result that would make the orchestrator requeue the message.
C13_ConcurrentIdempotencyIsSuccess ==
    (SendMailDone /\ ConcurrentIdempotency) =>
        /\ aOutcome.kind = "returned"
        /\ aOutcome.result.success
        /\ aOutcome.result.id

(***************************************************************************)
(* Properties of the idempotency-key derivation (specification SpecDerive). *)
(***************************************************************************)

\* C14 (as claimed): the derivation is a pure function of the caller key: two
\* derivations from the same key give the identical token, a key already in
\* UUID form is passed through unchanged by OneSignal, and every derived token
\* matches the target format's pattern (OneSignal: the UUID pattern the adapter
\* tests keys against; Resend: a lower-case hex digest).
C14_DerivedTokenMatchesFormat ==
    \A i \in DOMAIN dTokens :
        /\ dTokens[i] = dTokens[1]
        /\ IF dFormat = "onesignal"
           THEN /\ uuidRegex(dKey) => dTokens[i] = dKey
                /\ uuidRegex(dTokens[i])
           ELSE /\ Len(dTokens[i]) = 40
                /\ \A c \in DOMAIN dTokens[i] : dTokens[i][c] \in HexLower

(***************************************************************************)
(* Properties of the adapters' webhook.                                     *)
(***************************************************************************)
WebhookDone == wPc = "done"

\* verification is configured for the adapter called and the request fails it
VerificationFailed ==
    CASE wAdapter = "resend" ->
             ~ResendVerified(wConfig, wRequest.payload, wRequest.headers)
      [] wAdapter = "onesignal" -> ~OneSignalVerified(wConfig, wRequest.headers)
      [] wAdapter = "mandrill" ->
             /\ ~IsNull(wConfig.webhookKey) /\ ~IsNull(wConfig.webhookUrl)
             /\ ~_verifyWebhookSignature(wConfig, wRequest.payload, wRequest.headers)
      [] OTHER -> FALSE

\* C15: for every adapter, a webhook call whose request fails verification
\* (missing, wrong or stale signature or shared-secret header) does not throw:
\* it returns null.
C15_VerificationFailureReturnsNull ==
    (WebhookDone /\ VerificationFailed) => wOutcome = Return(Null)


SecretConfigured == wAdapter = "resend" /\ ~IsNull(wConfig.webhookSigningSecret)

MissingSvixHeader ==
    \/ IsNull(wRequest.headers.svixId)
    \/ IsNull(wRequest.headers.svixTimestamp)
    \/ IsNull(wRequest.headers.svixSignature)

\* the timestamp of the request is a number more than 300 s before or after now
OutsideWindow ==
    LET t == Val(wRequest.headers.svixTimestamp)
    IN  t.lit = "digits" /\ (t.n < Now - SvixTolerance \/ t.n > Now + SvixTolerance)

\* the entries of svix-signature, each <<label, ",", value>>
SuppliedEntries == split(Val(wRequest.headers.svixSignature), Lit(" "))

\* the body the sender of an entry signed: what follows "id.timestamp."
SignedBodyOf(entry) == SubSeq(entry[3].mac[3], 5, Len(entry[3].mac[3]))

\* the body of the request, as the adapter reads it
RequestBody == payloadString(wRequest.payload)

\* the MAC the holder of the configured secret makes for this request
ExpectedSvixSignature ==
    Hmac("sha256", "k1",
         <<Val(wRequest.headers.svixId), Lit("."), Val(wRequest.headers.svixTimestamp),
           Lit(".")>> \o RequestBody)

\* C16: with a webhookSigningSecret configured, Resend's webhook returns null
\* for a request that lacks svix-id, svix-timestamp or svix-signature, for one
\* whose timestamp is more than 300 s away from now, and for one whose body
\* differs from the body that was signed; whenever it does not return null,
\* some supplied entry labelled v1 carries exactly the HMAC-SHA256 of
\* id.timestamp.body under the secret.
C16_SvixVerification ==
    (WebhookDone /\ SecretConfigured) =>
        /\ MissingSvixHeader => wOutcome = Return(Null)
        /\ (~MissingSvixHeader /\ OutsideWindow) => wOutcome = Return(Null)
        /\ (~MissingSvixHeader
            /\ \A i \in DOMAIN SuppliedEntries : SignedBodyOf(SuppliedEntries[i]) # RequestBody)
               => wOutcome = Return(Null)
        /\ wOutcome # Return(Null) =>
               /\ ~MissingSvixHeader
               /\ \E i \in DOMAIN SuppliedEntries :
                      /\ SuppliedEntries[i][1] = Lit("v1")
                      /\ SuppliedEntries[i][3] = ExpectedSvixSignature

\* a request at the edge of the window is accepted on its second entry
C16_Witness ==
    /\ WebhookDone /\ SecretConfigured
    /\ wOutcome.kind = "returned" /\ ~IsNull(wOutcome.result)
    /\ wRequest.headers.svixTimestamp = Some(Timestamp(Now - SvixTolerance))
    /\ Len(SuppliedEntries) = 2
    /\ SuppliedEntries[1] = SvixDecoy


\* Mandrill's webhook got as far as checking the signature
MandrillVerifying ==
    /\ WebhookDone /\ wAdapter = "mandrill"
    /\ ~IsNull(wConfig.webhookKey) /\ ~IsNull(wConfig.webhookUrl)
    /\ mandrill_events \in DOMAIN wRequest.payload
    /\ (wRequest.payload[mandrill_events].isArray
        \/ wRequest.payload[mandrill_events].text # <<>>)

\* the request carries X-Mandrill-Signature, made with the configured key for body
SignedFor(body) ==
    /\ ~IsNull(wRequest.headers)
    /\ Val(wRequest.headers).name \in {"x-mandrill-signature", "X-Mandrill-Signature"}
    /\ Val(wRequest.headers).value
           = Hmac("sha1", Val(wConfig.webhookKey), MandrillSigns(Val(wConfig.webhookUrl), body))

OnlyStrings(body) == \A key \in DOMAIN body : ~body[key].isArray

\* C17: _verifyWebhookSignature returns true for an unmodified body whose
\* X-Mandrill-Signature was made with the configured key over webhookUrl
\* followed by every field's key and value in ascending key order; with the
\* same key and header it returns false once one field's value is changed,
\* and it returns false without the header (the webhook then returns null).
C17_SortedFieldSignature ==
    MandrillVerifying =>
        LET body == wRequest.payload
            verdict == _verifyWebhookSignature(wConfig, body, wRequest.headers)
        IN  /\ (OnlyStrings(body) /\ SignedFor(body)) => verdict
            /\ \A before \in OneValueChanged(body) :
                   (OnlyStrings(before) /\ SignedFor(before)) => ~verdict
            /\ IsNull(wRequest.headers) => ~verdict
            /\ ~verdict => wOutcome = Return(Null)

\* a signed body of two fields passes and its event is surfaced
C17_Witness ==
    /\ MandrillVerifying
    /\ DOMAIN wRequest.payload = {mandrill_events, KeyA}
    /\ SignedFor(wRequest.payload)
    /\ wOutcome.kind = "returned" /\ ~IsNull(wOutcome.result)

\* a body of two fields, one value changed after signing, is dropped
C17_ChangedValueDropped ==
    /\ MandrillVerifying
    /\ DOMAIN wRequest.payload = {mandrill_events, KeyZ}
    /\ \E before \in OneValueChanged(wRequest.payload) :
           OnlyStrings(before) /\ SignedFor(before)
    /\ wOutcome = Return(Null)


\* provider events that report no final state
ResendInformational == {"email.sent", "email.delivery_delayed"}
MandrillInformational == {"send", "deferral"}

\* the events of the body Mandrill's webhook went through
MandrillProcessed ==
    /\ WebhookDone /\ wAdapter = "mandrill"
    /\ wOutcome.kind = "returned" /\ ~IsNull(wOutcome.result)

ReceivedEvents == _parseMandrillEvents(wRequest.payload[mandrill_events]).events

\* C18: informational provider events are never surfaced.  Resend's webhook
\* returns null for email.sent and email.delivery_delayed; the list Mandrill's
\* webhook returns holds no send and no deferral event, only the other events
\* of the body.
C18_InformationalEventsDropped ==
    /\ (WebhookDone /\ wAdapter = "resend" /\ wRequest.payload.type \in ResendInformational)
           => wOutcome = Return(Null)
    /\ MandrillProcessed =>
           LET results == Val(wOutcome.result)
           IN  /\ \A i \in DOMAIN results : results[i].event \notin MandrillInformational
               /\ Len(results)
                      <= Cardinality({i \in DOMAIN ReceivedEvents :
                                         ReceivedEvents[i] \notin MandrillInformational})

\* a body with a send and a delivered event surfaces the delivered event alone
C18_Witness ==
    /\ MandrillProcessed
    /\ ReceivedEvents = <<"send", "delivered">>
    /\ Len(Val(wOutcome.result)) = 1
    /\ Val(wOutcome.result)[1].event = "delivered"

\* a verified email.sent from Resend is dropped
C18_ResendSentDropped ==
    /\ WebhookDone /\ SecretConfigured
    /\ wRequest.payload.type = "email.sent"
    /\ wOutcome = Return(Null)


\* Mandrill's webhook got as far as mapping the events of the body
MandrillMapping ==
    /\ WebhookDone /\ wAdapter = "mandrill"
    /\ mandrill_events \in DOMAIN wRequest.payload
    /\ ~VerificationFailed
    /\ _parseMandrillEvents(wRequest.payload[mandrill_events]).kind = "array"

\* OneSignal's webhook got as far as mapping the event
OneSignalMapping == WebhookDone /\ wAdapter = "onesignal" /\ ~VerificationFailed

Unsubscribed == <<"u", "n", "s", "u", "b", "s", "c", "r", "i", "b", "e", "d">>

\* C19: an unsubscribe event received from a provider (Mandrill unsub,
\* OneSignal unsubscribed) comes out as a WebhookEvent with status HARD-REJECT.
C19_UnsubscribeIsHardReject ==
    /\ (OneSignalMapping /\ wRequest.payload.kind = Some(Unsubscribed)) =>
           /\ wOutcome.kind = "returned" /\ ~IsNull(wOutcome.result)
           /\ Val(wOutcome.result).status = "HARD-REJECT"
    /\ (MandrillMapping /\ \E i \in DOMAIN ReceivedEvents : ReceivedEvents[i] = "unsub") =>
           /\ wOutcome.kind = "returned" /\ ~IsNull(wOutcome.result)
           /\ \E i \in DOMAIN Val(wOutcome.result) :
                  /\ Val(wOutcome.result)[i].event = "unsub"
                  /\ Val(wOutcome.result)[i].status = "HARD-REJECT"


\* the canonical statuses of a WebhookEvent
CanonicalStatuses ==
    {"ACCEPTED", "DELIVERED", "OPENED", "CLICKED", "SOFT-REJECT", "HARD-REJECT",
     "COMPLAINED", "UNSUBSCRIBED"}

\* the events a webhook call returned: the one object, or the entries of the list
ReturnedEvents ==
    IF ~WebhookDone \/ wOutcome.kind # "returned" \/ IsNull(wOutcome.result) THEN {}
    ELSE IF wAdapter = "mandrill"
    THEN {Val(wOutcome.result)[i] : i \in DOMAIN Val(wOutcome.result)}
    ELSE {Val(wOutcome.result)}

\* C20: every non-null event returned by an adapter's webhook has a status in
\* the canonical set, whatever the provider's event type, the unknown types
\* that go through OneSignal's substring fallback included; no intermediate
\* label (BOUNCED, FAILED, COMPLAINT, UNKNOWN) escapes.
C20_StatusIsCanonical ==
    \A e \in ReturnedEvents : e.status \in CanonicalStatuses


\* C21: every non-null WebhookEvent returned by an adapter's webhook carries
\* a defined messageId (Resend data.email_id, Mandrill msg._id, OneSignal
\* event.external_id or else message.id); no event is returned without one.
C21_MessageIdDefined ==
    \A e \in ReturnedEvents : ~IsNull(e.messageId)


(***************************************************************************)
(* More properties of the adapters' sendMail.                               *)
(***************************************************************************)
\* the adapters that send over HTTP with fetch
HttpAdapters == {"resend", "mandrill", "generic-rest", "onesignal", "telegram"}

\* the send requests the call has issued
SendAttempts == Cardinality({i \in DOMAIN aRequests : aRequests[i] = "send"})

\* the endpoint answered the send request with HTTP 429
Throttled ==
    /\ aCall.adapter \in HttpAdapters
    /\ aAnswer.kind = "response" /\ aAnswer.status = 429

ThrottlingFailure ==
    /\ SendMailReturned /\ ~aOutcome.result.success
    /\ aCall.adapter \in {"resend", "mandrill", "onesignal"}
    /\ aAnswer.kind = "response" /\ ~ResponseOk(aAnswer.status)
    /\ \/ aAnswer.status = 429
       \/ /\ aCall.adapter = "resend" /\ aAnswer.body = "json"
          /\ aAnswer.name \in {"rate_limit_exceeded", "daily_quota_exceeded",
                               "monthly_quota_exceeded"}

\* the seconds the claim names: the header, else the default of the sub-reason,
\* else 60
ClaimedPause ==
    IF ~IsNull(aAnswer.retryAfter) THEN Val(aAnswer.retryAfter)
    ELSE IF aCall.adapter = "resend" /\ aAnswer.body = "json"
            /\ aAnswer.name = "daily_quota_exceeded" THEN 3600
    ELSE IF aCall.adapter = "resend" /\ aAnswer.body = "json"
            /\ aAnswer.name = "monthly_quota_exceeded" THEN 86400
    ELSE 60

\* C23: when sendMail of Resend, Mandrill or OneSignal fails because of
\* throttling, the result carries pauseDuration, in seconds: the value of the
\* Retry-After header when the answer has one, otherwise the provider's
\* default for the sub-reason (Resend: 3600 daily quota, 86400 monthly quota),
\* otherwise 60.
C23_PauseDurationFromHeaderOrDefault ==
    ThrottlingFailure => aOutcome.result.pauseDuration = Some(ClaimedPause)



(***************************************************************************)
(* Properties of healthCheck.                                               *)
(***************************************************************************)

HealthStatuses == {"HEALTHY", "DEGRADED", "UNHEALTHY"}

HealthDone == hPc = "done"

\* the probe failed: the fetch or the SDK call rejected, the body could not be
\* read or is not JSON, or the provider answered with an error status
ProbeFailed ==
    \/ hAnswer.kind \in {"reject", "bodyfail", "error"}
    \/ /\ hAnswer.kind = "response"
       /\ \/ hAnswer.body = "text"
          \/ IF hAdapter = "generic-rest" THEN hAnswer.status \notin successCodes
             ELSE ~ResponseOk(hAnswer.status)

\* C24: for every adapter, healthCheck never throws and returns one of HEALTHY,
\* DEGRADED or UNHEALTHY, and whenever the probe fails (error status, rejected
\* fetch, unparsable response) it returns UNHEALTHY
C24_FailedProbeIsUnhealthy ==
    HealthDone =>
        /\ hOutcome.kind = "returned"
        /\ hOutcome.result \in HealthStatuses
        /\ ProbeFailed => hOutcome.result = "UNHEALTHY"


\* the probe failed by the adapter's own test: the call rejected or the body
\* could not be read; Generic REST: status outside successCodes; Resend: status
\* outside 2xx, unless the error is concurrent_idempotent_requests; Mandrill:
\* status outside 2xx; OneSignal: status outside 2xx or a body that is not
\* JSON; Telegram: a body that is not JSON or lacks ok, whatever the status
ProbeErrored ==
    \/ hAnswer.kind \in {"reject", "bodyfail", "error"}
    \/ /\ hAnswer.kind = "response"
       /\ CASE hAdapter = "generic-rest" -> hAnswer.status \notin successCodes
            [] hAdapter = "resend" ->
                   /\ ~ResponseOk(hAnswer.status)
                   /\ ~(hAnswer.body = "json" /\ hAnswer.name = "concurrent_idempotent_requests")
            [] hAdapter = "mandrill" -> ~ResponseOk(hAnswer.status)
            [] hAdapter = "onesignal" ->
                   ~ResponseOk(hAnswer.status) \/ hAnswer.body \in {"empty", "text"}
            [] hAdapter = "telegram" -> hAnswer.body # "json" \/ ~hAnswer.ok
            [] OTHER -> FALSE

\* C24 (as the code has it): healthCheck never throws and returns one of
\* HEALTHY, DEGRADED, UNHEALTHY; it returns UNHEALTHY whenever the probe fails
\* by the adapter's own test, and a success status with a body that is not JSON
\* is HEALTHY for Resend, Mandrill and Generic REST
C24_ErroredProbeIsUnhealthy ==
    HealthDone =>
        /\ hOutcome.kind = "returned"
        /\ hOutcome.result \in HealthStatuses
        /\ ProbeErrored => hOutcome.result = "UNHEALTHY"
        /\ (/\ hAdapter \in {"resend", "mandrill", "generic-rest"}
            /\ hAnswer.kind = "response" /\ hAnswer.status = 200 /\ hAnswer.body = "text")
           => hOutcome.result = "HEALTHY"

\* the AWS SDK rejected GetAccount, and healthCheck returned UNHEALTHY
C24_Witness ==
    /\ HealthDone
    /\ hAdapter = "ses"
    /\ hAnswer.kind = "error"
    /\ hOutcome = Return("UNHEALTHY")


(***************************************************************************)
(* Properties of the adapter instance.                                      *)
(***************************************************************************)

\* C25: no adapter operation writes to the instance: after any interleaving
\* of invocations the fields (config, baseUrl, successCodes, client or
\* transporter) equal their values right after construction
C25_InstanceFieldsUnchanged == iFields = iConstructed

\* a Generic REST sendMail has merged the request's headers over the configured
\* ones and awaits its request, while another invocation has ended
C25_Witness ==
    /\ iAdapter = "generic-rest"
    /\ ~IsNull(iFields.config.customHeaders)
    /\ \E c, d \in 1..MaxCalls :
        /\ c # d
        /\ iCalls[c].op = "sendMail" /\ iCalls[c].pc = "awaiting"
        /\ iCalls[c].headers # Val(iFields.config.customHeaders)
        /\ iCalls[d].op \in Operations /\ iCalls[d].pc = "done"
    /\ iFields = iConstructed


(***************************************************************************)
(* Properties of the client under concurrent calls.                         *)
(***************************************************************************)

\* call c can take the step its position calls for
CanProceed(c) ==
    CASE kCalls[c].pc = "fetch" -> ENABLED Responds(c) /\ ENABLED Rejects(c)
      [] kCalls[c].pc = "backoff" -> ENABLED TimerFires(c)
      [] OTHER -> ENABLED Request(c)

\* C26: while one call is suspended in a backoff wait, any other call on the
\* same client can issue its attempts and complete: the wait delays only the
\* call that is retrying
C26_BackoffDelaysOnlyItsCall ==
    \A c, d \in ClientCalls :
        (c # d /\ kCalls[d].pc = "backoff") => CanProceed(c)

\* a call started while the other was in a backoff wait, made two attempts and
\* returned, and the other call is still in that wait
C26_Witness ==
    \E c, d \in ClientCalls :
        /\ c # d
        /\ kCalls[d].pc = "backoff"
        /\ d \in kCalls[c].passed
        /\ kCalls[c].pc = "returned"
        /\ kCalls[c].attemptsMade = 2


\* this step is the end of an attempt of call c by a response
ResponseStep(c) ==
    /\ kCalls[c].pc = "fetch"
    /\ kCalls'[c].pc # "fetch"
    /\ kLast'.kind = "response"

\* the three headers are present and not empty
Complete(rl) ==
    \A header \in {rl.limit, rl.remaining, rl.reset} : ~IsNull(header) /\ Val(header) # ""

RateLimitValues(rl) ==
    [limit |-> parseInt(Val(rl.limit)), remaining |-> parseInt(Val(rl.remaining)),
     reset |-> parseInt(Val(rl.reset))]

\* what the call does after a response with this status, and for how long it
\* waits: the snapshot is not among the arguments
AfterResponse(cfg, status, att) ==
    IF status >= 200 /\ status <= 299 THEN [pc |-> "returned", delay |-> 0]
    ELSE IF att < cfg.maxRetries /\ status \in cfg.retryOn
    THEN [pc |-> "backoff", delay |-> Min(cfg.baseDelay * Pow2(att), cfg.maxDelay)]
    ELSE [pc |-> "thrown", delay |-> 0]

NamedValue(input, key) ==
    LET data == IF IsNull(input.data) THEN NoData ELSE Val(input.data)
    IN  CASE key = "to" -> Some(input.to)
          [] key = "subject" -> Some(input.subject)
          [] key = "body" -> Some(input.body)
          [] key = "from_email" -> Or(input.from_email, data.from_email)
          [] key = "name" -> data.name
          [] OTHER -> Null

\* C28: with a payloadTemplate, every {{key}} whose trimmed key is to, subject,
\* body, from_email, from_name or a key of data is replaced by its value, every
\* other placeholder is left as it is, and the parsed object is sent when the
\* substituted text is valid JSON, the substituted string otherwise
C28_TemplateSubstitution ==
    tPc = "done" =>
        /\ Len(tPayload.text) = Len(tInput.payloadTemplate)
        /\ \A n \in DOMAIN tInput.payloadTemplate :
            LET segment == tInput.payloadTemplate[n]
            IN  IF segment.kind = "match"
                   /\ ~IsNull(NamedValue(tInput, trim(segment.inner)[1]))
                THEN tPayload.text[n].kind = "value"
                     /\ tPayload.text[n].text
                            = Val(NamedValue(tInput, trim(segment.inner)[1]))
                ELSE tPayload.text[n] = segment
        /\ tPayload.parsed = IsJson(tPayload.text)


\* C29: the retry policy of a logical call is the one in effect when the call
\* started: a configure({retry}) made while the call is in a backoff wait does
\* not change the number of its attempts, which never exceeds 1 + the
\* maxRetries it started with
C29_AttemptsBoundedByStartingPolicy ==
    \A c \in ClientCalls : kCalls[c].attemptsMade <= 1 + kCalls[c].started


\* the request carries an X-Mandrill-Signature that Mandrill made with the
\* configured key over the URL it posts to and the fields of this body
ValidlySigned ==
    /\ ~IsNull(wRequest.headers)
    /\ Val(wRequest.headers).value
           = Hmac("sha1", Val(wConfig.webhookKey), MandrillSigns(MandrillUrl, wRequest.payload))

\* C30: a Mandrill adapter with a webhookKey never returns events for a
\* request whose X-Mandrill-Signature is missing or does not verify, whatever
\* the rest of the configuration is (webhookUrl not set included)
C30_KeyedWebhookRejectsUnsigned ==
    (/\ WebhookDone /\ wAdapter = "mandrill"
     /\ ~IsNull(wConfig.webhookKey)
     /\ ~ValidlySigned)
        => ~MandrillProcessed

====
